---- MODULE Spec2Model ----
(***************************************************************************)
(* Model of viper-remote-provider: the provider registry                   *)
(* (provider/registry.go), the GitHub ConfigManager's polling worker       *)
(* (provider/github/manager.go) and the viper bridge (remote.go).          *)
(***************************************************************************)
EXTENDS Integers, Sequences, FiniteSets, TLC

(***************************************************************************)
(* Bounds                                                                  *)
(***************************************************************************)
\* number of Managers the factories may build in one run
MaxManagers == 3
\* number of GetContents calls one polling worker makes in one run
MaxFetches == 3
\* number of GetContents calls in the runs whose remote always answers with
\* decodable content
MaxGoodFetches == 5
\* number of GetContents calls of each worker when one Manager has several
MaxWatcherFetches == 2
\* number of GetContents calls of the worker in the runs with re-registrations
MaxReFetches == 2

(***************************************************************************)
(* Values                                                                  *)
(***************************************************************************)
Threads == {"t1", "t2"}
NoThread == "none"

\* provider.Type values in use (types.go)
Types == {"github", "s3"}
\* the keys callers look up: the types in use and one nobody registers
Keys == Types \cup {"etcd"}

Factories == {"f1", "f2"}

NoErr == "nil"
NoManager == [mid |-> 0, factory |-> "none"]
NoEntry == [Factory |-> "none", Manager |-> NoManager]

\* github.Option; a string field is either empty or set
MkOption(o, r, p, t, k) ==
    [Owner |-> o, Repository |-> r, Path |-> p, Token |-> t, PemFilePath |-> k]

OptTokenOk == MkOption("o", "r", "p", "t", "")
OptPemOk == MkOption("o", "r", "p", "", "k")
OptNoOwner == MkOption("", "r", "p", "t", "")
OptNoCreds == MkOption("o", "r", "p", "", "")

\* the Options values the callers of Register pass
RegOptions == {OptTokenOk, OptPemOk, OptNoOwner, OptNoCreds}

\* a variant of Validate that accepts a token as the only credential
ValidateTokenOnly(o) ==
    IF o.Owner = "" THEN "owner is required"
    ELSE IF o.Repository = "" THEN "repository is required"
    ELSE IF o.Path = "" THEN "path is required"
    ELSE IF o.Token = "" THEN "either token or pem file path is required"
    ELSE NoErr

\* Option.Validate
Validate(o) ==
    IF o.Owner = "" THEN "owner is required"
    ELSE IF o.Repository = "" THEN "repository is required"
    ELSE IF o.Path = "" THEN "path is required"
    ELSE IF o.Token = "" /\ o.PemFilePath = "" THEN "either token or pem file path is required"
    ELSE NoErr

(***************************************************************************)
(* State                                                                   *)
(***************************************************************************)
VARIABLES
    \* ProviderRegistry
    providers,    \* r.providers: Type -> registration, NoEntry where the key is absent
    mu,           \* r.mu: the writer holding it and the set of readers holding it
    pc,           \* position of each caller inside its registry call
    frame,        \* arguments and locals of each caller's call in progress
    ret,          \* what the last completed call returned and did, and whose it was
    nextMgr,      \* identity of the next Manager a factory builds
    latest,       \* per id, the Manager of the last Register that returned nil
    \* ConfigManager.Watch worker
    remote,       \* what the remote source of this run can answer: "any" or "good"
    wpc,          \* position of the polling goroutine
    etag,         \* the goroutine's local etag
    cur,          \* result of the GetContents call being processed
    tickerOn,     \* the ticker has been created and not stopped
    tickPending,  \* a tick is waiting in ticker.C
    log,          \* the results of the GetContents calls made so far
    emitted,      \* the responses sent on respChan so far
    ticksTaken,   \* number of ticks the select has consumed
    respClosed,   \* respChan has been closed
    \* WatchChannel bridge goroutine and the host
    bpc,          \* position of the bridge goroutine
    held,         \* resp, the response the bridge received and has not yet forwarded
    hostCancel,   \* the host's send on quitwc: "no", "sending", "sent", "resending"
    hostRecv,     \* the responses the host received on viperResponsCh
    \* remoteConfigProvider.Get, Watch and WatchChannel, up to their return
    call,         \* the bridge call in progress: its descriptor, position and locals
    bret,         \* what the last completed bridge call returned and did
    errCh,        \* the buffered channel WatchChannel makes when resolution fails
    \* several Watch calls on one ConfigManager
    workers,      \* per Watch call: the goroutine's position, etag, fetches, emissions
    watchCalls,   \* number of Watch calls made on the Manager
    \* a github.Option and the ConfigManager constructed from it
    option,       \* the caller's *Option, which the ConfigManager keeps
    vret,         \* whether Validate was called on it, and the error it returned
    cmgr,         \* the ConfigManager that NewGithubConfigManager returned, if any
    ticker,       \* the ticker of a Watch on that ConfigManager, if any
    \* the package-level RegisterProvider and the host's globals
    supported,    \* viper.SupportedRemoteProviders
    remoteConfig, \* viper.RemoteConfig: "nil", "bridge" or another factory
    top           \* position and locals of each caller's RegisterProvider call

regVars == <<providers, mu, pc, frame, ret, nextMgr, latest>>
pollVars == <<remote, wpc, etag, cur, tickerOn, tickPending, log, emitted, ticksTaken, respClosed>>
bridgeVars == <<bpc, held, hostCancel, hostRecv>>
callVars == <<call, bret, errCh>>
watcherVars == <<workers, watchCalls>>
optionVars == <<option, vret, cmgr, ticker>>
hostVars == <<supported, remoteConfig, top>>
vars == <<providers, mu, pc, frame, ret, nextMgr, latest,
          remote, wpc, etag, cur, tickerOn, tickPending, log, emitted, ticksTaken,
          respClosed, bpc, held, hostCancel, hostRecv, call, bret, errCh,
          workers, watchCalls, option, vret, cmgr, ticker,
          supported, remoteConfig, top>>

(***************************************************************************)
(* ProviderRegistry                                                        *)
(***************************************************************************)
NoFrame ==
    [op |-> "none", id |-> "none", options |-> OptTokenOk, factory |-> "none",
     manager |-> NoManager, validateCalls |-> 0, factoryCalls |-> 0]

NoRet ==
    [by |-> NoThread, op |-> "none", id |-> "none", manager |-> NoManager, err |-> NoErr,
     exists |-> FALSE, validateCalls |-> 0, factoryCalls |-> 0]

\* what a call hands back: the error, the Manager and the boolean it returns,
\* with the number of Validate and factory calls it made
Return(t, f, e, m, x) ==
    [by |-> t, op |-> f.op, id |-> f.id, manager |-> m, err |-> e, exists |-> x,
     validateCalls |-> f.validateCalls, factoryCalls |-> f.factoryCalls]

RegInit ==
    /\ providers = [t \in Keys |-> NoEntry]
    /\ mu = [writer |-> NoThread, readers |-> {}]
    /\ pc = [t \in Threads |-> "idle"]
    /\ frame = [t \in Threads |-> NoFrame]
    /\ ret = NoRet
    /\ nextMgr = 1
    /\ latest = [t \in Types |-> NoManager]

\* a variant of CanLock that is no lock at all
CanLockAlways == TRUE
\* r.mu.Lock() succeeds when nobody holds the lock
CanLock == mu.writer = NoThread /\ mu.readers = {}

\* a variant of CanRLock that lets a reader in beside a writer
CanRLockAlways == TRUE
\* r.mu.RLock() succeeds when no writer holds the lock
CanRLock == mu.writer = NoThread

\* RegisterProvider, entry: r.mu.Lock()
RegisterLock(t, id, options, factory) ==
    /\ pc[t] = "idle"
    /\ CanLock
    /\ mu' = [mu EXCEPT !.writer = t]
    /\ frame' = [frame EXCEPT ![t] =
            [NoFrame EXCEPT !.op = "Register", !.id = id, !.options = options,
                            !.factory = factory]]
    /\ pc' = [pc EXCEPT ![t] = "reg_validate"]
    /\ UNCHANGED <<providers, ret, nextMgr, latest>>

\* a variant of RegisterValidate that goes on to the factory whatever Validate says
RegisterValidateIgnored(t) ==
    /\ pc[t] = "reg_validate"
    /\ frame' = [frame EXCEPT ![t].validateCalls = @ + 1]
    /\ pc' = [pc EXCEPT ![t] = "reg_factory"]
    /\ UNCHANGED <<providers, mu, ret, nextMgr, latest>>

\* if err := options.Validate(); err != nil { return ... }  (deferred Unlock)
RegisterValidate(t) ==
    /\ pc[t] = "reg_validate"
    /\ LET f == [frame[t] EXCEPT !.validateCalls = @ + 1]
       IN IF Validate(f.options) # NoErr
          THEN /\ ret' =
                        Return(t, f, "invalid options", NoManager, FALSE)
               /\ frame' = [frame EXCEPT ![t] = NoFrame]
               /\ mu' = [mu EXCEPT !.writer = NoThread]
               /\ pc' = [pc EXCEPT ![t] = "idle"]
          ELSE /\ frame' = [frame EXCEPT ![t] = f]
               /\ pc' = [pc EXCEPT ![t] = "reg_factory"]
               /\ UNCHANGED <<ret, mu>>
    /\ UNCHANGED <<providers, nextMgr, latest>>

\* a variant of RegisterFactory that drops the entry of id when the factory
\* fails
RegisterFactoryDropsEntry(t) ==
    /\ pc[t] = "reg_factory"
    /\ nextMgr <= MaxManagers
    /\ LET f == [frame[t] EXCEPT !.factoryCalls = @ + 1]
       IN \E ok \in BOOLEAN :
            IF ok
            THEN /\ frame' = [frame EXCEPT ![t] =
                        [f EXCEPT !.manager = [mid |-> nextMgr, factory |-> f.factory]]]
                 /\ nextMgr' = nextMgr + 1
                 /\ pc' = [pc EXCEPT ![t] = "reg_store"]
                 /\ UNCHANGED <<ret, mu, providers, latest>>
            ELSE /\ ret' =
                        Return(t, f, "failed to create manager", NoManager, FALSE)
                 /\ providers' = [providers EXCEPT ![f.id] = NoEntry]
                 /\ latest' = [latest EXCEPT ![f.id] = NoManager]
                 /\ frame' = [frame EXCEPT ![t] = NoFrame]
                 /\ mu' = [mu EXCEPT !.writer = NoThread]
                 /\ pc' = [pc EXCEPT ![t] = "idle"]
                 /\ UNCHANGED nextMgr

\* a variant of RegisterFactory that stores the registration before it looks at err
RegisterFactoryStoresFirst(t) ==
    /\ pc[t] = "reg_factory"
    /\ nextMgr <= MaxManagers
    /\ LET f == [frame[t] EXCEPT !.factoryCalls = @ + 1]
       IN \E ok \in BOOLEAN :
            IF ok
            THEN /\ frame' = [frame EXCEPT ![t] =
                        [f EXCEPT !.manager = [mid |-> nextMgr, factory |-> f.factory]]]
                 /\ nextMgr' = nextMgr + 1
                 /\ pc' = [pc EXCEPT ![t] = "reg_store"]
                 /\ UNCHANGED <<ret, mu, providers>>
            ELSE /\ providers' = [providers EXCEPT ![f.id] =
                        [Factory |-> f.factory, Manager |-> NoManager]]
                 /\ ret' = Return(t, f, "failed to create manager", NoManager, FALSE)
                 /\ frame' = [frame EXCEPT ![t] = NoFrame]
                 /\ mu' = [mu EXCEPT !.writer = NoThread]
                 /\ pc' = [pc EXCEPT ![t] = "idle"]
                 /\ UNCHANGED nextMgr
    /\ UNCHANGED latest

\* manager, err := factory(options); if err != nil { return ... }
RegisterFactory(t) ==
    /\ pc[t] = "reg_factory"
    /\ nextMgr <= MaxManagers
    /\ LET f == [frame[t] EXCEPT !.factoryCalls = @ + 1]
       IN \E ok \in BOOLEAN :
            IF ok
            THEN /\ frame' = [frame EXCEPT ![t] =
                        [f EXCEPT !.manager = [mid |-> nextMgr, factory |-> f.factory]]]
                 /\ nextMgr' = nextMgr + 1
                 /\ pc' = [pc EXCEPT ![t] = "reg_store"]
                 /\ UNCHANGED <<ret, mu>>
            ELSE /\ ret' =
                        Return(t, f, "failed to create manager", NoManager, FALSE)
                 /\ frame' = [frame EXCEPT ![t] = NoFrame]
                 /\ mu' = [mu EXCEPT !.writer = NoThread]
                 /\ pc' = [pc EXCEPT ![t] = "idle"]
                 /\ UNCHANGED nextMgr
    /\ UNCHANGED <<providers, latest>>

\* a variant of StoreRegistration that keeps the Manager of an existing entry
StoreRegistrationKeepOld(provs, id, factory, manager) ==
    IF provs[id] = NoEntry
    THEN [provs EXCEPT ![id] = [Factory |-> factory, Manager |-> manager]]
    ELSE [provs EXCEPT ![id] = [Factory |-> factory, Manager |-> provs[id].Manager]]

\* r.providers[providerType] = &ProviderRegistration{Factory, Manager}
StoreRegistration(provs, id, factory, manager) ==
    [provs EXCEPT ![id] = [Factory |-> factory, Manager |-> manager]]

RegisterStore(t) ==
    /\ pc[t] = "reg_store"
    /\ providers' = StoreRegistration(providers, frame[t].id, frame[t].factory,
                                      frame[t].manager)
    /\ pc' = [pc EXCEPT ![t] = "reg_return"]
    /\ UNCHANGED <<mu, frame, ret, nextMgr, latest>>

\* return nil  (deferred Unlock)
RegisterReturn(t) ==
    /\ pc[t] = "reg_return"
    /\ ret' =
            Return(t, frame[t], NoErr, frame[t].manager, FALSE)
    /\ latest' = [latest EXCEPT ![frame[t].id] = frame[t].manager]
    /\ frame' = [frame EXCEPT ![t] = NoFrame]
    /\ mu' = [mu EXCEPT !.writer = NoThread]
    /\ pc' = [pc EXCEPT ![t] = "idle"]
    /\ UNCHANGED <<providers, nextMgr>>

\* GetManager, entry: r.mu.RLock()
GetManagerLock(t, id) ==
    /\ pc[t] = "idle"
    /\ CanRLock
    /\ mu' = [mu EXCEPT !.readers = @ \cup {t}]
    /\ frame' = [frame EXCEPT ![t] =
            [NoFrame EXCEPT !.op = "GetManager", !.id = id]]
    /\ pc' = [pc EXCEPT ![t] = "get_read"]
    /\ UNCHANGED <<providers, ret, nextMgr, latest>>

\* a variant of Lookup that returns the Manager of whichever entry it finds first
LookupAny(provs, id) ==
    IF provs[id] = NoEntry
    THEN [exists |-> FALSE, Manager |-> NoManager]
    ELSE LET k == CHOOSE x \in Types : provs[x] # NoEntry
         IN [exists |-> TRUE, Manager |-> provs[k].Manager]

\* registration, exists := r.providers[providerType]
Lookup(provs, id) ==
    IF provs[id] = NoEntry
    THEN [exists |-> FALSE, Manager |-> NoManager]
    ELSE [exists |-> TRUE, Manager |-> provs[id].Manager]

\* the lookup, the return and the deferred RUnlock
GetManagerRead(t) ==
    /\ pc[t] = "get_read"
    /\ LET l == Lookup(providers, frame[t].id)
       IN ret' =
            IF l.exists
            THEN Return(t, frame[t], NoErr, l.Manager, TRUE)
            ELSE Return(t, frame[t], "not registered", NoManager, FALSE)
    /\ frame' = [frame EXCEPT ![t] = NoFrame]
    /\ mu' = [mu EXCEPT !.readers = @ \ {t}]
    /\ pc' = [pc EXCEPT ![t] = "idle"]
    /\ UNCHANGED <<providers, nextMgr, latest>>

\* IsRegistered, entry: r.mu.RLock()
IsRegisteredLock(t, id) ==
    /\ pc[t] = "idle"
    /\ CanRLock
    /\ mu' = [mu EXCEPT !.readers = @ \cup {t}]
    /\ frame' = [frame EXCEPT ![t] =
            [NoFrame EXCEPT !.op = "IsRegistered", !.id = id]]
    /\ pc' = [pc EXCEPT ![t] = "isreg_read"]
    /\ UNCHANGED <<providers, ret, nextMgr, latest>>

\* _, exists := r.providers[providerType]; return exists  (deferred RUnlock)
IsRegisteredRead(t) ==
    /\ pc[t] = "isreg_read"
    /\ ret' =
            Return(t, frame[t], NoErr, NoManager,
                   Lookup(providers, frame[t].id).exists)
    /\ frame' = [frame EXCEPT ![t] = NoFrame]
    /\ mu' = [mu EXCEPT !.readers = @ \ {t}]
    /\ pc' = [pc EXCEPT ![t] = "idle"]
    /\ UNCHANGED <<providers, nextMgr, latest>>

(***************************************************************************)
(* The remote content source, as ConfigManager sees it                     *)
(***************************************************************************)
\* content == nil, a content whose GetContent() fails, and two decodable ones
NilContent == "nil"
BadContent == "bad"
Contents == {NilContent, BadContent, "c1", "c2"}

\* content.GetContent(): the decoded string and the error
GetContent(c) ==
    IF c = "c1" THEN [value |-> "b1", err |-> NoErr]
    ELSE IF c = "c2" THEN [value |-> "b2", err |-> NoErr]
    ELSE [value |-> "", err |-> "decode error"]

\* what one GetContents call returns: err, whether resp carries a header,
\* the header's ETag ("" when the header has none) and the content
FetchFailed == [err |-> "fetch error", hdr |-> FALSE, tok |-> "", content |-> NilContent]
NoHeader == [err |-> NoErr, hdr |-> FALSE, tok |-> "", content |-> "c1"]
NoETag == [err |-> NoErr, hdr |-> TRUE, tok |-> "", content |-> "c1"]
NoFetch == [err |-> "none", hdr |-> FALSE, tok |-> "", content |-> NilContent]

AllResults ==
    {FetchFailed, NoHeader, NoETag} \cup
    {[err |-> NoErr, hdr |-> TRUE, tok |-> t, content |-> c] :
        t \in {"A", "B"}, c \in Contents}

GoodResults ==
    {[err |-> NoErr, hdr |-> TRUE, tok |-> t, content |-> c] :
        t \in {"A", "B"}, c \in {"c1", "c2"}} \cup
    {[err |-> NoErr, hdr |-> TRUE, tok |-> "C", content |-> "c1"]}

FewResults ==
    {FetchFailed,
     [err |-> NoErr, hdr |-> TRUE, tok |-> "A", content |-> "c1"],
     [err |-> NoErr, hdr |-> TRUE, tok |-> "B", content |-> "c2"]}

\* crypt's config.Response and viper's RemoteResponse
NilValue == "nil"
Response(v, e) == [type |-> "config.Response", Value |-> v, Error |-> e]
RemoteResponse(v, e) == [type |-> "viper.RemoteResponse", Value |-> v, Error |-> e]
NoResp == [type |-> "none", Value |-> NilValue, Error |-> NoErr]

(***************************************************************************)
(* ConfigManager.Watch and fetchAndNotify                                  *)
(***************************************************************************)
\* a variant of fetchAndNotify that compares the content instead of the ETag
fetchAndNotifyByContent(r, e) ==
    IF r.err # NoErr
    THEN [send |-> Response(NilValue, r.err), sleep |-> TRUE, etag |-> e]
    ELSE IF r.content # NilContent /\ GetContent(r.content).err = NoErr
               /\ GetContent(r.content).value # e
         THEN [send |-> Response(GetContent(r.content).value, NoErr),
               sleep |-> FALSE, etag |-> GetContent(r.content).value]
         ELSE [send |-> NoResp, sleep |-> FALSE, etag |-> e]

\* a variant of fetchAndNotify that sends the undecoded content along with the
\* decode error
fetchAndNotifySendsBoth(r, e) ==
    IF r.err # NoErr
    THEN [send |-> Response(NilValue, r.err), sleep |-> TRUE, etag |-> e]
    ELSE IF r.hdr /\ r.tok # "" /\ r.tok # e /\ r.content # NilContent
         THEN IF GetContent(r.content).err # NoErr
              THEN [send |-> Response(r.content, GetContent(r.content).err),
                    sleep |-> FALSE, etag |-> e]
              ELSE [send |-> Response(GetContent(r.content).value, NoErr),
                    sleep |-> FALSE, etag |-> r.tok]
         ELSE [send |-> NoResp, sleep |-> FALSE, etag |-> e]

\* a variant of fetchAndNotify that takes the new token also when the content
\* does not decode
fetchAndNotifyAdvancesOnDecodeError(r, e) ==
    IF r.err # NoErr
    THEN [send |-> Response(NilValue, r.err), sleep |-> TRUE, etag |-> e]
    ELSE IF r.hdr /\ r.tok # "" /\ r.tok # e /\ r.content # NilContent
         THEN IF GetContent(r.content).err # NoErr
              THEN [send |-> Response(NilValue, GetContent(r.content).err),
                    sleep |-> FALSE, etag |-> r.tok]
              ELSE [send |-> Response(GetContent(r.content).value, NoErr),
                    sleep |-> FALSE, etag |-> r.tok]
         ELSE [send |-> NoResp, sleep |-> FALSE, etag |-> e]

\* a variant of fetchAndNotify that forgets the etag when the fetch fails
fetchAndNotifyResetsOnError(r, e) ==
    IF r.err # NoErr
    THEN [send |-> Response(NilValue, r.err), sleep |-> TRUE, etag |-> ""]
    ELSE IF r.hdr /\ r.tok # "" /\ r.tok # e /\ r.content # NilContent
         THEN IF GetContent(r.content).err # NoErr
              THEN [send |-> Response(NilValue, GetContent(r.content).err),
                    sleep |-> FALSE, etag |-> e]
              ELSE [send |-> Response(GetContent(r.content).value, NoErr),
                    sleep |-> FALSE, etag |-> r.tok]
         ELSE [send |-> NoResp, sleep |-> FALSE, etag |-> e]

\* fetchAndNotify after GetContents returned r, with e the etag passed in:
\* the response it sends (NoResp: none), whether it sleeps after the send, and
\* the etag it returns
fetchAndNotify(r, e) ==
    IF r.err # NoErr
    THEN [send |-> Response(NilValue, r.err), sleep |-> TRUE, etag |-> e]
    ELSE IF r.hdr /\ r.tok # "" /\ r.tok # e /\ r.content # NilContent
         THEN IF GetContent(r.content).err # NoErr
              THEN [send |-> Response(NilValue, GetContent(r.content).err),
                    sleep |-> FALSE, etag |-> e]
              ELSE [send |-> Response(GetContent(r.content).value, NoErr),
                    sleep |-> FALSE, etag |-> r.tok]
         ELSE [send |-> NoResp, sleep |-> FALSE, etag |-> e]

\* the answers GetContents can give in a run, and how many calls the run makes
Results(kind) ==
    IF kind = "good" THEN GoodResults
    ELSE IF kind = "few" THEN FewResults
    ELSE AllResults
FetchLimit(kind) ==
    IF kind = "good" THEN MaxGoodFetches
    ELSE IF kind = "few" THEN MaxReFetches
    ELSE MaxFetches

PollInit ==
    /\ remote \in {"any", "good"}
    /\ wpc = "idle"
    /\ etag = ""
    /\ cur = NoFetch
    /\ tickerOn = FALSE
    /\ tickPending = FALSE
    /\ log = <<>>
    /\ emitted = <<>>
    /\ ticksTaken = 0
    /\ respClosed = FALSE

\* the worker not started, with a remote of few answers
PollFew ==
    /\ remote = "few"
    /\ wpc = "idle"
    /\ etag = ""
    /\ cur = NoFetch
    /\ tickerOn = FALSE
    /\ tickPending = FALSE
    /\ log = <<>>
    /\ emitted = <<>>
    /\ ticksTaken = 0
    /\ respClosed = FALSE

\* a variant of WorkerStart that waits for the first tick before it fetches
WorkerStartWaits ==
    /\ wpc = "start"
    /\ etag' = ""
    /\ tickerOn' = TRUE
    /\ wpc' = "select"
    /\ UNCHANGED <<remote, cur, tickPending, log, emitted, ticksTaken, respClosed,
                   bridgeVars>>

\* the goroutine up to the initial fetch: var etag string; time.NewTicker
WorkerStart ==
    /\ wpc = "start"
    /\ etag' = ""
    /\ tickerOn' = TRUE
    /\ wpc' = "fetch"
    /\ UNCHANGED <<remote, cur, tickPending, log, emitted, ticksTaken, respClosed,
                   bridgeVars>>

\* the runtime delivers a tick into ticker.C (capacity 1; a tick that finds it
\* full is dropped)
Tick ==
    /\ tickerOn
    /\ ~tickPending
    /\ tickPending' = TRUE
    /\ UNCHANGED <<remote, wpc, etag, cur, tickerOn, log, emitted, ticksTaken,
                   respClosed, bridgeVars>>

\* a variant of Fetch that starts the next fetch while the response of the
\* last one is still waiting to be sent
FetchWhileSending ==
    /\ wpc \in {"fetch", "send"}
    /\ Len(log) < FetchLimit(remote)
    /\ \E r \in Results(remote) :
        /\ log' = Append(log, r)
        /\ cur' = r
        /\ IF fetchAndNotify(r, etag).send # NoResp
           THEN /\ wpc' = "send"
                /\ UNCHANGED etag
           ELSE /\ wpc' = "select"
                /\ etag' = fetchAndNotify(r, etag).etag
    /\ UNCHANGED <<remote, tickerOn, tickPending, emitted, ticksTaken, respClosed,
                   bridgeVars>>

\* fetchAndNotify: the GetContents call, up to the first blocking send or, when
\* nothing is sent, the return
Fetch ==
    /\ wpc = "fetch"
    /\ Len(log) < FetchLimit(remote)
    /\ \E r \in Results(remote) :
        /\ log' = Append(log, r)
        /\ cur' = r
        /\ IF fetchAndNotify(r, etag).send # NoResp
           THEN /\ wpc' = "send"
                /\ UNCHANGED etag
           ELSE /\ wpc' = "select"
                /\ etag' = fetchAndNotify(r, etag).etag
    /\ UNCHANGED <<remote, tickerOn, tickPending, emitted, ticksTaken, respClosed,
                   bridgeVars>>

\* time.Sleep(time.Second * 5); return etag
Backoff ==
    /\ wpc = "sleep"
    /\ wpc' = "select"
    /\ etag' = fetchAndNotify(cur, etag).etag
    /\ UNCHANGED <<remote, cur, tickerOn, tickPending, log, emitted, ticksTaken,
                   respClosed, bridgeVars>>

\* case <-ticker.C: etag = cm.fetchAndNotify(...)
SelectTick ==
    /\ wpc = "select"
    /\ tickPending
    /\ tickPending' = FALSE
    /\ ticksTaken' = ticksTaken + 1
    /\ wpc' = "fetch"
    /\ UNCHANGED <<remote, etag, cur, tickerOn, log, emitted, respClosed, bridgeVars>>

(***************************************************************************)
(* remoteConfigProvider.WatchChannel: the bridge goroutine and the host    *)
(***************************************************************************)
BridgeInit ==
    /\ bpc = "idle"
    /\ held = NoResp
    /\ hostCancel = "no"
    /\ hostRecv = <<>>

\* a variant of Convert that loses the error
ConvertValueOnly(resp) == RemoteResponse(resp.Value, NoErr)

\* &viper.RemoteResponse{Error: resp.Error, Value: resp.Value}
Convert(resp) == RemoteResponse(resp.Value, resp.Error)

\* WatchChannel with a resolved Manager: the channels are made, cm.Watch starts
\* the polling goroutine, the bridge goroutine is started
WatchChannel ==
    /\ bpc = "idle"
    /\ wpc = "idle"
    /\ wpc' = "start"
    /\ bpc' = "select"
    /\ UNCHANGED <<remote, etag, cur, tickerOn, tickPending, log, emitted, ticksTaken,
                   respClosed, held, hostCancel, hostRecv>>

\* respChan <- resp in fetchAndNotify meets case resp := <-cr in the bridge
SendResponse ==
    /\ wpc = "send"
    /\ bpc = "select"
    /\ ~respClosed
    /\ held' = fetchAndNotify(cur, etag).send
    /\ emitted' = Append(emitted, fetchAndNotify(cur, etag).send)
    /\ bpc' = "forward"
    /\ IF fetchAndNotify(cur, etag).sleep
       THEN /\ wpc' = "sleep"
            /\ UNCHANGED etag
       ELSE /\ wpc' = "select"
            /\ etag' = fetchAndNotify(cur, etag).etag
    /\ UNCHANGED <<remote, cur, tickerOn, tickPending, log, ticksTaken, respClosed,
                   hostCancel, hostRecv>>

\* vr <- &viper.RemoteResponse{...} meets the host's receive
Forward ==
    /\ bpc = "forward"
    /\ hostRecv' = Append(hostRecv, Convert(held))
    /\ held' = NoResp
    /\ bpc' = "select"
    /\ UNCHANGED <<pollVars, hostCancel>>

\* the host starts sending true on the cancellation channel it was given
HostCancel ==
    /\ bpc # "idle"
    /\ hostCancel = "no"
    /\ hostCancel' = "sending"
    /\ UNCHANGED <<pollVars, bpc, held, hostRecv>>

\* case <-quitwc: in the bridge meets the host's send
BridgeQuit ==
    /\ bpc = "select"
    /\ hostCancel = "sending"
    /\ hostCancel' = "sent"
    /\ bpc' = "send_quit"
    /\ UNCHANGED <<pollVars, held, hostRecv>>

\* the host sends true on the cancellation channel once more; quitwc is
\* unbuffered and the bridge, which received once, never receives again
HostCancelAgain ==
    /\ hostCancel = "sent"
    /\ hostCancel' = "resending"
    /\ UNCHANGED <<pollVars, bpc, held, hostRecv>>

\* a variant of SelectStop whose return leaves only the select, not the loop
SelectStopBreaksSelect ==
    /\ wpc = "select"
    /\ bpc = "send_quit"
    /\ wpc' = "select"
    /\ bpc' = "done"
    /\ UNCHANGED <<remote, etag, cur, tickerOn, tickPending, log, emitted, ticksTaken,
                   respClosed, held, hostCancel, hostRecv>>

\* quit <- true in the bridge meets case <-stop: return in the polling
\* goroutine, whose deferred ticker.Stop() runs; the bridge returns too
SelectStop ==
    /\ wpc = "select"
    /\ bpc = "send_quit"
    /\ wpc' = "done"
    /\ tickerOn' = FALSE
    /\ bpc' = "done"
    /\ UNCHANGED <<remote, etag, cur, tickPending, log, emitted, ticksTaken,
                   respClosed, held, hostCancel, hostRecv>>

(***************************************************************************)
(* remoteConfigProvider: Manager resolution, Get, Watch and the failure    *)
(* path of WatchChannel                                                    *)
(***************************************************************************)
\* viper.RemoteProvider: Provider(), Endpoint(), SecretKeyring(), Path()
Descriptor(p, e, k, path) ==
    [provider |-> p, endpoint |-> e, secretKeyring |-> k, path |-> path]
NoDescriptor == Descriptor("none", "", "", "")

\* the descriptors the host passes
Descriptors ==
    {Descriptor("github", "a", "", "p"),
     Descriptor("github", "a", "", "other"),
     Descriptor("etcd", "a;b", "", "p"),
     Descriptor("etcd", "a;b", "kr", "p")}

\* strings.Split(rp.Endpoint(), ";")
Split(e) == IF e = "a;b" THEN <<"a", "b">> ELSE <<e>>

\* the backend the switch on rp.Provider() picks
LegacyKind(p) ==
    IF p = "etcd" THEN "etcd"
    ELSE IF p = "etcd3" THEN "etcd3"
    ELSE IF p = "firestore" THEN "firestore"
    ELSE IF p = "nats" THEN "nats"
    ELSE "consul"

\* a crypt.ConfigManager
LegacyManager(kind, endpoints, secure) ==
    [mid |-> 0, factory |-> "crypt", kind |-> kind, endpoints |-> endpoints,
     secure |-> secure]
IsLegacy(cm) == cm.factory = "crypt"

\* func getConfigManager(rp): openOk tells whether os.Open of the keyring
\* succeeds, newOk whether crypt's constructor does
getConfigManager(rp, openOk, newOk) ==
    IF rp.secretKeyring # "" /\ ~openOk
    THEN [cm |-> NoManager, err |-> "open error"]
    ELSE IF ~newOk
    THEN [cm |-> NoManager, err |-> "backend error"]
    ELSE [cm |-> LegacyManager(LegacyKind(rp.provider), Split(rp.endpoint),
                               rp.secretKeyring # ""),
          err |-> NoErr]

NoCall ==
    [by |-> NoThread, op |-> "none", rp |-> NoDescriptor, stage |-> "none",
     saw |-> FALSE, cm |-> NoManager, err |-> NoErr, legacyCalls |-> 0]

NoBret ==
    [op |-> "none", rp |-> NoDescriptor, saw |-> FALSE, cm |-> NoManager,
     resErr |-> NoErr, legacyCalls |-> 0, fetched |-> NoFetch, getCalls |-> 0,
     key |-> "",
     got |-> [bytes |-> "nil", err |-> NoErr, fetches |-> 0], watchCalls |-> 0,
     reader |-> [type |-> "nil", data |-> ""], err |-> NoErr,
     stream |-> "none", cancel |-> "none"]

NoChan == [buf |-> <<>>, closed |-> FALSE, eof |-> FALSE]

CallInit ==
    /\ call = NoCall
    /\ bret = NoBret
    /\ errCh = NoChan

BridgeOps == {"Get", "Watch", "WatchChannel"}

\* rc.getConfigManager(rp), entry: provider.IsRegistered(providerType) takes
\* the read lock
ResolveIsRegisteredLock(t, op, rp) ==
    /\ call = NoCall
    /\ op = "WatchChannel" => bpc = "idle" /\ ~errCh.closed
    /\ IsRegisteredLock(t, rp.provider)
    /\ call' = [NoCall EXCEPT !.by = t, !.op = op, !.rp = rp, !.stage = "is_registered"]
    /\ bret' = NoBret
    /\ UNCHANGED errCh

\* a variant of ResolveIsRegisteredRead that tries the legacy backends first
ResolveIsRegisteredReadLegacyFirst(t) ==
    /\ call.by = t
    /\ call.stage = "is_registered"
    /\ IsRegisteredRead(t)
    /\ call' = [call EXCEPT !.saw = ret'.exists, !.stage = "legacy"]
    /\ UNCHANGED <<bret, errCh>>

\* if provider.IsRegistered(providerType) { ... }
ResolveIsRegisteredRead(t) ==
    /\ call.by = t
    /\ call.stage = "is_registered"
    /\ IsRegisteredRead(t)
    /\ call' = [call EXCEPT !.saw = ret'.exists,
                            !.stage = IF ret'.exists THEN "get_manager" ELSE "legacy"]
    /\ UNCHANGED <<bret, errCh>>

\* return provider.GetManager(providerType), entry
ResolveGetManagerLock(t) ==
    /\ call.by = t
    /\ call.stage = "get_manager"
    /\ GetManagerLock(t, call.rp.provider)
    /\ call' = [call EXCEPT !.stage = "get_manager_read"]
    /\ UNCHANGED <<bret, errCh>>

\* return provider.GetManager(providerType), the lookup and the return
ResolveGetManagerRead(t) ==
    /\ call.by = t
    /\ call.stage = "get_manager_read"
    /\ GetManagerRead(t)
    /\ call' = [call EXCEPT !.cm = ret'.manager, !.err = ret'.err, !.stage = "resolved"]
    /\ UNCHANGED <<bret, errCh>>

\* return getConfigManager(rp)
ResolveLegacy(t) ==
    /\ call.by = t
    /\ call.stage = "legacy"
    /\ \E openOk \in BOOLEAN, newOk \in BOOLEAN :
        call' = [call EXCEPT !.cm = getConfigManager(call.rp, openOk, newOk).cm,
                             !.err = getConfigManager(call.rp, openOk, newOk).err,
                             !.legacyCalls = @ + 1,
                             !.stage = "resolved"]
    /\ UNCHANGED <<regVars, bret, errCh>>

\* what GetContents can answer at the Manager's configured path
GetInputs ==
    {FetchFailed} \cup
    {[err |-> NoErr, hdr |-> TRUE, tok |-> "A", content |-> c] : c \in Contents}

NotFound == [err |-> "not found", hdr |-> FALSE, tok |-> "", content |-> NilContent]

\* cm.client.Repositories.GetContents(ctx, owner, repository, path, opts), the
\* remote holding r at the path of the Manager's option and nothing elsewhere
GetContentsAt(path, r) == IF path = OptTokenOk.Path THEN r ELSE NotFound

\* what Manager.Get hands back, with the number of GetContents calls it made
GetResult(b, e, n) == [bytes |-> b, err |-> e, fetches |-> n]

\* a variant of ManagerGet that fetches at the path it is given as key
ManagerGetAtKey(dataId, r) ==
    IF GetContentsAt(dataId, r).err # NoErr
    THEN GetResult(NilValue, GetContentsAt(dataId, r).err, 1)
    ELSE IF GetContentsAt(dataId, r).content = NilContent
    THEN GetResult(NilValue, NoErr, 1)
    ELSE IF GetContent(GetContentsAt(dataId, r).content).err # NoErr
    THEN GetResult(NilValue, GetContent(GetContentsAt(dataId, r).content).err, 1)
    ELSE GetResult(GetContent(GetContentsAt(dataId, r).content).value, NoErr, 1)

\* ConfigManager.Get(dataId)
ManagerGet(dataId, r) ==
    IF GetContentsAt(OptTokenOk.Path, r).err # NoErr
    THEN GetResult(NilValue, GetContentsAt(OptTokenOk.Path, r).err, 1)
    ELSE IF GetContentsAt(OptTokenOk.Path, r).content = NilContent
    THEN GetResult(NilValue, NoErr, 1)
    ELSE IF GetContent(GetContentsAt(OptTokenOk.Path, r).content).err # NoErr
    THEN GetResult(NilValue, GetContent(GetContentsAt(OptTokenOk.Path, r).content).err, 1)
    ELSE GetResult(GetContent(GetContentsAt(OptTokenOk.Path, r).content).value, NoErr, 1)

\* what the Get of a crypt.ConfigManager can hand back
LegacyGetResults ==
    {GetResult("lb", NoErr, 1), GetResult(NilValue, "backend get error", 1)}

\* bytes.NewReader(b): a reader of the bytes of b, of none when b is nil
NewReader(b) == [type |-> "bytes.Reader", data |-> IF b = NilValue THEN "" ELSE b]
NilReader == [type |-> "nil", data |-> ""]

\* remoteConfigProvider.Get after cm.Get returned m
GetReturn(m) ==
    IF m.err # NoErr
    THEN [reader |-> NilReader, err |-> m.err]
    ELSE [reader |-> NewReader(m.bytes), err |-> NoErr]

\* a variant of WatchReturn that wraps the error
WatchReturnWrapped(m) ==
    IF m.err # NoErr
    THEN [reader |-> NilReader, err |-> "watch failed"]
    ELSE [reader |-> NewReader(m.bytes), err |-> NoErr]

\* remoteConfigProvider.Watch after cm.Get returned m
WatchReturn(m) ==
    IF m.err # NoErr
    THEN [reader |-> NilReader, err |-> m.err]
    ELSE [reader |-> NewReader(m.bytes), err |-> NoErr]

\* the record of a completed call c
Returned(c) ==
    [NoBret EXCEPT !.op = c.op, !.rp = c.rp, !.saw = c.saw, !.cm = c.cm,
                   !.resErr = c.err, !.legacyCalls = c.legacyCalls]

\* cm.Get(rp.Path()) on the resolved Manager cm, the remote answering r and a
\* legacy backend answering lr
CallGet(cm, path, r, lr) == IF IsLegacy(cm) THEN lr ELSE ManagerGet(path, r)

\* remoteConfigProvider.Get, after resolution
BridgeGet(t) ==
    /\ call.by = t
    /\ call.stage = "resolved"
    /\ call.op = "Get"
    /\ IF call.err # NoErr
       THEN bret' = [Returned(call) EXCEPT !.err = call.err, !.reader = NilReader]
       ELSE \E r \in GetInputs, lr \in LegacyGetResults :
                bret' = [Returned(call) EXCEPT
                            !.fetched = IF IsLegacy(call.cm) THEN NoFetch ELSE r,
                            !.got = CallGet(call.cm, call.rp.path, r, lr),
                            !.getCalls = 1,
                            !.key = call.rp.path,
                            !.reader = GetReturn(CallGet(call.cm, call.rp.path, r, lr)).reader,
                            !.err = GetReturn(CallGet(call.cm, call.rp.path, r, lr)).err]
    /\ call' = NoCall
    /\ UNCHANGED <<regVars, errCh>>

\* remoteConfigProvider.Watch, after resolution
BridgeWatch(t) ==
    /\ call.by = t
    /\ call.stage = "resolved"
    /\ call.op = "Watch"
    /\ IF call.err # NoErr
       THEN bret' = [Returned(call) EXCEPT !.err = call.err, !.reader = NilReader]
       ELSE \E r \in GetInputs, lr \in LegacyGetResults :
                bret' = [Returned(call) EXCEPT
                            !.fetched = IF IsLegacy(call.cm) THEN NoFetch ELSE r,
                            !.got = CallGet(call.cm, call.rp.path, r, lr),
                            !.getCalls = 1,
                            !.key = call.rp.path,
                            !.reader = WatchReturn(CallGet(call.cm, call.rp.path, r, lr)).reader,
                            !.err = WatchReturn(CallGet(call.cm, call.rp.path, r, lr)).err]
    /\ call' = NoCall
    /\ UNCHANGED <<regVars, errCh>>

\* a variant of WatchChannelFailed that leaves the error twice in the stream
WatchChannelFailedTwice(t) ==
    /\ call.by = t
    /\ call.stage = "resolved"
    /\ call.op = "WatchChannel"
    /\ call.err # NoErr
    /\ errCh' = [buf |-> <<RemoteResponse(NilValue, call.err),
                           RemoteResponse(NilValue, call.err)>>,
                 closed |-> TRUE, eof |-> FALSE]
    /\ bret' = [Returned(call) EXCEPT !.err = call.err, !.stream = "errCh",
                                      !.cancel = "inert"]
    /\ call' = NoCall
    /\ UNCHANGED regVars

\* WatchChannel when resolution failed: errCh is made with room for one
\* response, takes &viper.RemoteResponse{Error: err} and is closed; it is
\* returned with a fresh channel that has no receiver
WatchChannelFailed(t) ==
    /\ call.by = t
    /\ call.stage = "resolved"
    /\ call.op = "WatchChannel"
    /\ call.err # NoErr
    /\ errCh' = [buf |-> <<RemoteResponse(NilValue, call.err)>>,
                 closed |-> TRUE, eof |-> FALSE]
    /\ bret' = [Returned(call) EXCEPT !.err = call.err, !.stream = "errCh",
                                      !.cancel = "inert"]
    /\ call' = NoCall
    /\ UNCHANGED regVars

\* WatchChannel when resolution succeeded: cm.Watch and the bridge goroutine
\* are started, viperResponsCh and quitwc are returned
WatchChannelResolved(t) ==
    /\ call.by = t
    /\ call.stage = "resolved"
    /\ call.op = "WatchChannel"
    /\ call.err = NoErr
    /\ WatchChannel
    /\ bret' = [Returned(call) EXCEPT !.watchCalls = 1, !.stream = "viperResponsCh",
                                      !.cancel = "quitwc"]
    /\ call' = NoCall
    /\ UNCHANGED <<regVars, errCh>>

\* the host receives the response waiting in errCh
HostRecvErrCh ==
    /\ errCh.buf # <<>>
    /\ hostRecv' = Append(hostRecv, Head(errCh.buf))
    /\ errCh' = [errCh EXCEPT !.buf = Tail(@)]
    /\ UNCHANGED <<bpc, held, hostCancel, call, bret>>

\* the host receives from errCh, empty and closed: no response, ok is false
HostRecvClosed ==
    /\ errCh.buf = <<>>
    /\ errCh.closed
    /\ ~errCh.eof
    /\ errCh' = [errCh EXCEPT !.eof = TRUE]
    /\ UNCHANGED <<bridgeVars, call, bret>>

\* the host starts sending true on the channel returned with errCh
HostCancelInert ==
    /\ errCh.closed
    /\ hostCancel = "no"
    /\ hostCancel' = "sending"
    /\ UNCHANGED <<bpc, held, hostRecv, callVars>>

(***************************************************************************)
(* Several Watch calls on one ConfigManager                                *)
(***************************************************************************)
\* the Watch calls, each named after the goroutine it starts
Watchers == {"w1", "w2"}

\* what the remote answers to the workers
WatcherResults ==
    {FetchFailed} \cup
    {[err |-> NoErr, hdr |-> TRUE, tok |-> "A", content |-> c] : c \in {"c1", "c2"}} \cup
    {[err |-> NoErr, hdr |-> TRUE, tok |-> "B", content |-> "c1"]}

NoWorker ==
    [pc |-> "idle", respChan |-> 0, etag |-> "", cur |-> NoFetch, log |-> <<>>,
     emitted |-> <<>>]

WatchersInit ==
    /\ workers = [w \in Watchers |-> NoWorker]
    /\ watchCalls = 0

\* a variant of StoreEtag that keeps the token in a field of the Manager, which
\* all its workers share
StoreEtagInManager(ws, w, e) == [v \in Watchers |-> [ws[v] EXCEPT !.etag = e]]

\* etag = cm.fetchAndNotify(...): etag is a local of the goroutine of w
StoreEtag(ws, w, e) == [ws EXCEPT ![w].etag = e]

\* ConfigManager.Watch: respChan is made and the goroutine started, up to its
\* first fetchAndNotify
ManagerWatch(w) ==
    /\ workers[w].pc = "idle"
    /\ watchCalls' = watchCalls + 1
    /\ workers' = [workers EXCEPT ![w].pc = "fetch", ![w].respChan = watchCalls + 1]

\* fetchAndNotify in the goroutine of w: the GetContents call, up to the first
\* blocking send or, when nothing is sent, the return
WatcherFetch(w) ==
    /\ workers[w].pc = "fetch"
    /\ Len(workers[w].log) < MaxWatcherFetches
    /\ \E r \in WatcherResults :
        LET fetched == [workers EXCEPT ![w].log = Append(@, r), ![w].cur = r]
        IN IF fetchAndNotify(r, workers[w].etag).send # NoResp
           THEN workers' = [fetched EXCEPT ![w].pc = "send"]
           ELSE workers' = StoreEtag([fetched EXCEPT ![w].pc = "select"], w,
                                     fetchAndNotify(r, workers[w].etag).etag)
    /\ UNCHANGED watchCalls

\* respChan <- resp of w meets the receive of its consumer
WatcherSend(w) ==
    /\ workers[w].pc = "send"
    /\ LET out == fetchAndNotify(workers[w].cur, workers[w].etag)
           sent == [workers EXCEPT ![w].emitted = Append(@, out.send)]
       IN IF out.sleep
          THEN workers' = [sent EXCEPT ![w].pc = "sleep"]
          ELSE workers' = StoreEtag([sent EXCEPT ![w].pc = "select"], w, out.etag)
    /\ UNCHANGED watchCalls

\* time.Sleep(time.Second * 5); return etag, in the goroutine of w
WatcherBackoff(w) ==
    /\ workers[w].pc = "sleep"
    /\ workers' = StoreEtag([workers EXCEPT ![w].pc = "select"], w,
                            fetchAndNotify(workers[w].cur, workers[w].etag).etag)
    /\ UNCHANGED watchCalls

\* case <-ticker.C: of the goroutine of w
WatcherTick(w) ==
    /\ workers[w].pc = "select"
    /\ workers' = [workers EXCEPT ![w].pc = "fetch"]
    /\ UNCHANGED watchCalls

(***************************************************************************)
(* github.Option, NewGithubConfigManager and the ticker of Watch           *)
(***************************************************************************)
\* 60 * time.Second, in seconds
DefaultPollingInterval == 60

\* the PollingInterval values callers set, in seconds
Intervals == {-1, 0, 1, DefaultPollingInterval, DefaultPollingInterval + 1}

\* an Option with its PollingInterval
WithInterval(o, d) ==
    [Owner |-> o.Owner, Repository |-> o.Repository, Path |-> o.Path,
     Token |-> o.Token, PemFilePath |-> o.PemFilePath, PollingInterval |-> d]

\* every Option, each string field empty or set
AllOptions ==
    {WithInterval(MkOption(o, r, p, t, k), d) :
        o \in {"", "o"}, r \in {"", "r"}, p \in {"", "p"}, t \in {"", "t"},
        k \in {"", "k"}, d \in Intervals}

NoVret == [called |-> FALSE, err |-> NoErr]
NoCmgr == [built |-> FALSE, err |-> NoErr, configured |-> 0]
NoTicker == [state |-> "none", interval |-> 0]

\* a variant of NewGithubConfigManager that leaves PollingInterval as it is
NewGithubConfigManagerNoDefault(o, keyOk) ==
    IF o.PemFilePath # "" /\ ~keyOk
    THEN [err |-> "key error", option |-> o]
    ELSE [err |-> NoErr, option |-> o]

\* NewGithubConfigManager(option): keyOk tells whether the key file can be
\* read; the error it returns and the Option as it leaves it
NewGithubConfigManager(o, keyOk) ==
    IF o.PemFilePath # "" /\ ~keyOk
    THEN [err |-> "key error", option |-> o]
    ELSE IF o.PollingInterval = 0
    THEN [err |-> NoErr, option |-> [o EXCEPT !.PollingInterval = DefaultPollingInterval]]
    ELSE [err |-> NoErr, option |-> o]

\* time.NewTicker(d) panics when d is not positive
NewTicker(d) ==
    IF d <= 0 THEN [state |-> "panic", interval |-> d]
    ELSE [state |-> "running", interval |-> d]

OptionInit ==
    /\ option = WithInterval(OptTokenOk, 0)
    /\ vret = NoVret
    /\ cmgr = NoCmgr
    /\ ticker = NoTicker

\* the caller has filled in its Option in some way
OptionChosen ==
    /\ option \in AllOptions
    /\ vret = NoVret
    /\ cmgr = NoCmgr
    /\ ticker = NoTicker

\* option.Validate()
OptionValidate ==
    /\ ~vret.called
    /\ vret' = [called |-> TRUE, err |-> Validate(option)]
    /\ UNCHANGED <<option, cmgr, ticker>>

\* cm, err := NewGithubConfigManager(option)
OptionNewManager ==
    /\ ~cmgr.built
    /\ cmgr.err = NoErr
    /\ \E keyOk \in BOOLEAN :
        /\ option' = NewGithubConfigManager(option, keyOk).option
        /\ cmgr' = [built |-> NewGithubConfigManager(option, keyOk).err = NoErr,
                    err |-> NewGithubConfigManager(option, keyOk).err,
                    configured |-> option.PollingInterval]
    /\ UNCHANGED <<vret, ticker>>

\* cm.Watch: pollInterval := cm.option.PollingInterval;
\* ticker := time.NewTicker(pollInterval)
OptionWatch ==
    /\ cmgr.built
    /\ ticker.state = "none"
    /\ ticker' = NewTicker(option.PollingInterval)
    /\ UNCHANGED <<option, vret, cmgr>>

(***************************************************************************)
(* The package-level RegisterProvider and the host's globals               *)
(***************************************************************************)
\* viper.SupportedRemoteProviders as the host library initialises it
DefaultSupported == <<"etcd", "etcd3", "consul", "firestore", "nats">>

NoTop == [pc |-> "idle", name |-> "none", list |-> <<>>]

HostInit ==
    /\ supported = DefaultSupported
    /\ remoteConfig = "nil"
    /\ top = [t \in Threads |-> NoTop]

\* the hook may already hold the factory of another package
HostChosen ==
    /\ supported = DefaultSupported
    /\ remoteConfig \in {"nil", "other"}
    /\ top = [t \in Threads |-> NoTop]

\* a variant of contains that finds nothing
containsNothing(slice, str) == FALSE

\* contains(slice, str)
contains(slice, str) == \E i \in 1..Len(slice) : slice[i] = str

\* RegisterProvider, entry: provider.Register(providerType, options, factory)
\* takes the registry lock
TopRegister(t, id, o, f) ==
    /\ top[t].pc = "idle"
    /\ RegisterLock(t, id, o, f)
    /\ top' = [top EXCEPT ![t] = [NoTop EXCEPT !.pc = "register", !.name = id]]
    /\ UNCHANGED <<supported, remoteConfig>>

\* provider.Register runs on; when it returns an error RegisterProvider
\* returns it, when it returns nil RegisterProvider goes on to the list
TopRegisterStep(t) ==
    /\ top[t].pc = "register"
    /\ \/ RegisterValidate(t)
       \/ RegisterFactory(t)
       \/ RegisterStore(t)
       \/ RegisterReturn(t)
    /\ top' = IF pc'[t] # "idle" THEN top
              ELSE IF ret'.err # NoErr THEN [top EXCEPT ![t] = NoTop]
              ELSE [top EXCEPT ![t].pc = "contains"]
    /\ UNCHANGED <<supported, remoteConfig>>

\* if !contains(viper.SupportedRemoteProviders, providerName)
TopContains(t) ==
    /\ top[t].pc = "contains"
    /\ top' = [top EXCEPT ![t].pc =
                IF contains(supported, top[t].name) THEN "hook" ELSE "append_read"]
    /\ UNCHANGED <<regVars, supported, remoteConfig>>

\* append(viper.SupportedRemoteProviders, providerName): the list is read
TopAppendRead(t) ==
    /\ top[t].pc = "append_read"
    /\ top' = [top EXCEPT ![t].pc = "append_write", ![t].list = supported]
    /\ UNCHANGED <<regVars, supported, remoteConfig>>

\* viper.SupportedRemoteProviders = append(...): the list is written
TopAppendWrite(t) ==
    /\ top[t].pc = "append_write"
    /\ supported' = Append(top[t].list, top[t].name)
    /\ top' = [top EXCEPT ![t].pc = "hook", ![t].list = <<>>]
    /\ UNCHANGED <<regVars, remoteConfig>>

\* if viper.RemoteConfig == nil; when it is not, return nil
TopHookCheck(t) ==
    /\ top[t].pc = "hook"
    /\ top' = IF remoteConfig = "nil"
              THEN [top EXCEPT ![t].pc = "set_hook"]
              ELSE [top EXCEPT ![t] = NoTop]
    /\ UNCHANGED <<regVars, supported, remoteConfig>>

\* viper.RemoteConfig = &remoteConfigProvider{}; return nil
TopHookSet(t) ==
    /\ top[t].pc = "set_hook"
    /\ remoteConfig' = "bridge"
    /\ top' = [top EXCEPT ![t] = NoTop]
    /\ UNCHANGED <<regVars, supported>>

\* the registrations the callers of RegisterProvider make
TopOptions == {OptTokenOk, OptNoCreds}
TopFactories == {"f1"}

\* the steps of the RegisterProvider call of t
TopNext(t) ==
    \/ \E id \in Types, o \in TopOptions, f \in TopFactories : TopRegister(t, id, o, f)
    \/ TopRegisterStep(t)
    \/ TopContains(t)
    \/ TopAppendRead(t)
    \/ TopAppendWrite(t)
    \/ TopHookCheck(t)
    \/ TopHookSet(t)

(***************************************************************************)
(* Registrations while a watch is running                                  *)
(***************************************************************************)
\* a variant of RegistryFrame in which replacing an entry stops the worker
\* started from its Manager
RegistryFrameStopsWorker ==
    /\ wpc' = IF providers' # providers /\ wpc \notin {"idle", "start"} THEN "done" ELSE wpc
    /\ UNCHANGED <<remote, etag, cur, tickerOn, tickPending, log, emitted, ticksTaken,
                   respClosed, bridgeVars>>

\* what the methods of ProviderRegistry leave alone: they touch r.mu and
\* r.providers, no channel and no goroutine
RegistryFrame == UNCHANGED <<pollVars, bridgeVars>>

\* the descriptor the host watches
WatchedDescriptor == Descriptor("github", "a", "", "p")

(***************************************************************************)
(* Specifications                                                          *)
(***************************************************************************)
Init ==
    /\ RegInit /\ PollInit /\ BridgeInit /\ CallInit /\ WatchersInit
    /\ OptionInit /\ HostInit

\* callers of the registry API, in any interleaving
RegNext ==
    /\ \/ \E t \in Threads, id \in Types, o \in RegOptions, f \in Factories :
            RegisterLock(t, id, o, f)
       \/ \E t \in Threads : RegisterValidate(t)
       \/ \E t \in Threads : RegisterFactory(t)
       \/ \E t \in Threads : RegisterStore(t)
       \/ \E t \in Threads : RegisterReturn(t)
       \/ \E t \in Threads, id \in Keys : GetManagerLock(t, id)
       \/ \E t \in Threads : GetManagerRead(t)
       \/ \E t \in Threads, id \in Keys : IsRegisteredLock(t, id)
       \/ \E t \in Threads : IsRegisteredRead(t)
    /\ UNCHANGED <<pollVars, bridgeVars, callVars, watcherVars, optionVars, hostVars>>

Spec == Init /\ [][RegNext]_vars

\* one WatchChannel on a resolved Manager
WatchNext ==
    /\ \/ WatchChannel
       \/ WorkerStart
       \/ Tick
       \/ Fetch
       \/ Backoff
       \/ SelectTick
       \/ SendResponse
       \/ Forward
       \/ HostCancel
       \/ BridgeQuit
       \/ SelectStop
       \/ HostCancelAgain
    /\ UNCHANGED <<regVars, callVars, watcherVars, optionVars, hostVars>>

SpecWatch == Init /\ [][WatchNext]_vars

\* the goroutine that registers providers and the one in which the host calls
\* the bridge; the registrations made while the host is calling
Registrar == "t1"
Host == "t2"
BridgeTypes == {"github"}
BridgeOptions == {OptTokenOk, OptNoCreds}
BridgeFactories == {"f1"}

\* the host calling Get, Watch and WatchChannel while providers are registered
BridgeNext ==
  /\ UNCHANGED <<watcherVars, optionVars, hostVars>>
  /\
    \/ /\ \/ \E id \in BridgeTypes, o \in BridgeOptions, f \in BridgeFactories :
                RegisterLock(Registrar, id, o, f)
          \/ RegisterValidate(Registrar)
          \/ RegisterFactory(Registrar)
          \/ RegisterStore(Registrar)
          \/ RegisterReturn(Registrar)
       /\ UNCHANGED <<pollVars, bridgeVars, callVars>>
    \/ /\ \/ \E op \in BridgeOps, rp \in Descriptors :
                ResolveIsRegisteredLock(Host, op, rp)
          \/ ResolveIsRegisteredRead(Host)
          \/ ResolveGetManagerLock(Host)
          \/ ResolveGetManagerRead(Host)
          \/ ResolveLegacy(Host)
          \/ BridgeGet(Host)
          \/ BridgeWatch(Host)
          \/ WatchChannelFailed(Host)
       /\ UNCHANGED <<pollVars, bridgeVars>>
    \/ WatchChannelResolved(Host)
    \/ /\ \/ HostRecvErrCh
          \/ HostRecvClosed
          \/ HostCancelInert
       /\ UNCHANGED <<regVars, pollVars>>

SpecBridge == Init /\ [][BridgeNext]_vars

\* two Watch calls on one Manager, their goroutines in any interleaving
WatchersNext ==
    /\ \/ \E w \in Watchers : ManagerWatch(w)
       \/ \E w \in Watchers : WatcherFetch(w)
       \/ \E w \in Watchers : WatcherSend(w)
       \/ \E w \in Watchers : WatcherBackoff(w)
       \/ \E w \in Watchers : WatcherTick(w)
    /\ UNCHANGED <<regVars, pollVars, bridgeVars, callVars, optionVars, hostVars>>

SpecWatchers == Init /\ [][WatchersNext]_vars

\* one Option, validated, handed to the constructor and watched
OptionsNext ==
    /\ \/ OptionValidate
       \/ OptionNewManager
       \/ OptionWatch
    /\ UNCHANGED <<regVars, pollVars, bridgeVars, callVars, watcherVars, hostVars>>

InitOptions ==
    /\ RegInit /\ PollInit /\ BridgeInit /\ CallInit /\ WatchersInit
    /\ OptionChosen /\ HostInit

InitRereg ==
    /\ RegInit /\ PollFew /\ BridgeInit /\ CallInit /\ WatchersInit
    /\ OptionInit /\ HostInit

\* the host watches a registered provider while the provider is registered
\* again
ReregNext ==
  /\ UNCHANGED <<watcherVars, optionVars, hostVars>>
  /\
    \/ /\ \/ \E id \in BridgeTypes, f \in BridgeFactories :
                RegisterLock(Registrar, id, OptTokenOk, f)
          \/ RegisterValidate(Registrar)
          \/ RegisterFactory(Registrar)
          \/ RegisterStore(Registrar)
          \/ RegisterReturn(Registrar)
       /\ RegistryFrame
       /\ UNCHANGED callVars
    \/ /\ providers[WatchedDescriptor.provider] # NoEntry
       /\ ResolveIsRegisteredLock(Host, "WatchChannel", WatchedDescriptor)
       /\ RegistryFrame
    \/ /\ \/ ResolveIsRegisteredRead(Host)
          \/ ResolveGetManagerLock(Host)
          \/ ResolveGetManagerRead(Host)
       /\ RegistryFrame
    \/ WatchChannelResolved(Host)
    \/ /\ \/ WorkerStart
          \/ Tick
          \/ Fetch
          \/ Backoff
          \/ SelectTick
          \/ SendResponse
          \/ Forward
          \/ HostCancel
          \/ BridgeQuit
          \/ SelectStop
       /\ UNCHANGED <<regVars, callVars>>

SpecRereg == InitRereg /\ [][ReregNext]_vars

SpecOptions == InitOptions /\ [][OptionsNext]_vars

InitHost ==
    /\ RegInit /\ PollInit /\ BridgeInit /\ CallInit /\ WatchersInit
    /\ OptionInit /\ HostChosen

\* RegisterProvider calls made one after another
HostSeqNext ==
    /\ TopNext(Registrar)
    /\ UNCHANGED <<pollVars, bridgeVars, callVars, watcherVars, optionVars>>

SpecHostSeq == InitHost /\ [][HostSeqNext]_vars

\* RegisterProvider calls of two goroutines, in any interleaving
HostConcNext ==
    /\ \E t \in Threads : TopNext(t)
    /\ UNCHANGED <<pollVars, bridgeVars, callVars, watcherVars, optionVars>>

SpecHostConc == InitHost /\ [][HostConcNext]_vars

(***************************************************************************)
(* Properties of the registry                                              *)
(***************************************************************************)
\* some Register(id, ...) has returned nil
Registered(id) == id \in Types /\ latest[id] # NoManager
\* the Manager of the last Register(id, ...) that returned nil
LatestManager(id) == IF Registered(id) THEN latest[id] ELSE NoManager

InRegister(t) == pc[t] \in {"reg_validate", "reg_factory", "reg_store", "reg_return"}

\* C1: when options.Validate() returns an error, Register returns an error,
\* Validate has been called exactly once and before any factory call, the
\* factory is not called, and the registry is as it was when the call began.
C1_InvalidOptionsRejected ==
    /\ [](\A t \in Threads :
            /\ pc[t] = "reg_validate" =>
                    frame[t].validateCalls = 0 /\ frame[t].factoryCalls = 0
            /\ pc[t] = "reg_factory" =>
                    /\ frame[t].validateCalls = 1 /\ frame[t].factoryCalls = 0
                    /\ Validate(frame[t].options) = NoErr
            /\ pc[t] \in {"reg_store", "reg_return"} =>
                    /\ frame[t].validateCalls = 1 /\ frame[t].factoryCalls = 1
                    /\ Validate(frame[t].options) = NoErr)
    /\ [][\A t \in Threads :
            /\ (pc[t] = "idle" /\ pc'[t] = "reg_validate") => providers' = providers
            /\ (pc[t] = "reg_validate" /\ Validate(frame[t].options) # NoErr
                    /\ pc'[t] # pc[t]) =>
                    /\ pc'[t] = "idle"
                    /\ ret'.by = t /\ ret'.op = "Register"
                    /\ ret'.err = "invalid options"
                    /\ ret'.validateCalls = 1
                    /\ ret'.factoryCalls = 0
                    /\ nextMgr' = nextMgr
                    /\ providers' = providers]_vars

\* a Register of an id that has a registration has been refused for its options
C1_Witness ==
    /\ ret.op = "Register"
    /\ ret.err = "invalid options"
    /\ ret.validateCalls = 1
    /\ providers[ret.id] # NoEntry

\* C2: GetManager(id) returns the Manager that the factory built in the last
\* Register(id, ...) that returned nil, and a not-registered error when there
\* has been none.
C2_GetManagerReturnsRegistered ==
    /\ [](mu.writer = NoThread =>
            \A id \in Keys :
                /\ providers[id].Manager = LatestManager(id)
                /\ providers[id] # NoEntry <=> Registered(id))
    /\ [][\A t \in Threads :
            /\ (pc[t] = "reg_return" /\ pc'[t] = "idle") =>
                    /\ ret'.err = NoErr
                    /\ ret'.manager = frame[t].manager
                    /\ ret'.manager.mid = nextMgr - 1
                    /\ latest'[frame[t].id] = ret'.manager
            /\ (pc[t] = "get_read" /\ pc'[t] = "idle") =>
                    /\ ret'.by = t /\ ret'.op = "GetManager"
                    /\ ret'.manager = LatestManager(frame[t].id)
                    /\ (ret'.err = NoErr) <=> Registered(frame[t].id)]_vars

\* GetManager has returned a Manager while another id holds a different one
C2_Witness ==
    /\ ret.op = "GetManager"
    /\ ret.err = NoErr
    /\ ret.manager = latest[ret.id]
    /\ \E o \in Types \ {ret.id} :
            latest[o] # NoManager /\ latest[o] # ret.manager

\* C3: a successful Register of an id that already has a registration
\* overwrites it: the entry of id is exactly the call's factory and the Manager
\* that factory built (a new one), the entries of the other ids are untouched
\* during the whole call, and the lookup of id then gives the later Manager.
C3_ReRegisterReplaces ==
    [][\A t \in Threads :
        /\ InRegister(t) =>
                \A o \in Keys \ {frame[t].id} : providers'[o] = providers[o]
        /\ (pc[t] = "reg_store" /\ pc'[t] # pc[t]) =>
                /\ providers'[frame[t].id] =
                        [Factory |-> frame[t].factory, Manager |-> frame[t].manager]
                /\ frame[t].manager # providers[frame[t].id].Manager
                /\ frame[t].manager.mid = nextMgr - 1
        /\ (pc[t] = "reg_return" /\ pc'[t] = "idle") =>
                /\ Lookup(providers', ret'.id).exists
                /\ Lookup(providers', ret'.id).Manager = ret'.manager
                /\ providers'[ret'.id].Factory = frame[t].factory]_vars

\* the third Manager has replaced the second under one id while the other id
\* still holds the first
C3_Witness ==
    /\ ret.op = "Register"
    /\ ret.err = NoErr
    /\ ret.manager.mid = 3
    /\ providers[ret.id].Manager = ret.manager
    /\ \E o \in Types \ {ret.id} : providers[o].Manager.mid = 1

\* C4: when the factory returns an error, Register returns an error and the
\* registry is as it was when the call began: no entry for an id that had
\* none, the previous entry for an id that had one.
C4_FactoryErrorStoresNothing ==
    [][\A t \in Threads :
        /\ (pc[t] = "idle" /\ pc'[t] = "reg_validate") => providers' = providers
        /\ pc[t] \in {"reg_validate", "reg_factory"} => providers' = providers
        /\ (pc[t] = "reg_factory" /\ pc'[t] = "idle") =>
                /\ ret'.by = t /\ ret'.op = "Register"
                /\ ret'.err = "failed to create manager"
                /\ ret'.manager = NoManager
                /\ \A id \in Types :
                        /\ Lookup(providers', id) = Lookup(providers, id)
                        /\ latest'[id] = latest[id]]_vars

\* a factory has failed for an id that keeps its earlier registration
C4_Witness ==
    /\ ret.op = "Register"
    /\ ret.err = "failed to create manager"
    /\ ret.factoryCalls = 1
    /\ providers[ret.id] # NoEntry
    /\ providers[ret.id].Manager = latest[ret.id]

(***************************************************************************)
(* Properties of the polling worker and the bridge                         *)
(***************************************************************************)
\* the step is a GetContents call, the step completes a send on respChan
FetchStep == Len(log') = Len(log) + 1
SendStep == wpc = "send" /\ wpc' # "send"

\* a fetch that succeeded with a token and content that decodes
Good(r) ==
    /\ r.err = NoErr
    /\ r.hdr
    /\ r.tok # ""
    /\ r.content \notin {NilContent, BadContent}

\* a fetch that succeeded and carries a token
HasToken(r) == r.err = NoErr /\ r.hdr /\ r.tok # ""

\* the Changed snapshot of the answer r, and the Failed snapshot of an error
Changed(r) == Response(GetContent(r.content).value, NoErr)
Failed(e) == Response(NilValue, e)

\* the number of positions of a token sequence that differ from the one before
RECURSIVE Transitions(_)
Transitions(toks) ==
    IF Len(toks) <= 1 THEN 0
    ELSE Transitions(SubSeq(toks, 1, Len(toks) - 1)) +
         (IF toks[Len(toks)] # toks[Len(toks) - 1] THEN 1 ELSE 0)

Tokens == [i \in 1..Len(log) |-> log[i].tok]
AllGood == \A i \in 1..Len(log) : Good(log[i])

\* C5 as stated: after the first emission every successful fetch whose token
\* differs from the stored one (or that finds no stored token) emits a Changed
\* snapshot with the fetched bytes and updates the token, and every other
\* successful fetch emits nothing and keeps the token.
C5_Original ==
    [][/\ (FetchStep /\ HasToken(cur') /\ Len(emitted) >= 1) =>
            IF cur'.tok # etag
            THEN wpc' = "send"
            ELSE wpc' = "select" /\ etag' = etag /\ emitted' = emitted
       /\ (SendStep /\ HasToken(cur) /\ Len(emitted) >= 1) =>
            /\ emitted' = Append(emitted, Changed(cur))
            /\ etag' = cur.tok]_vars

\* C5 (amended): after the first emission a successful fetch emits a Changed
\* snapshot with the fetched bytes, and the stored token becomes its token,
\* exactly when its token is non-empty and differs from the stored one and its
\* content is present and decodes; every other successful fetch emits no
\* Changed snapshot and keeps the token, also when the bytes differ.  When all
\* fetches are of that kind, the number of emissions after the first is the
\* number of token transitions: 2 for the tokens A, A, B, B, C.
C5_ChangedOnTokenTransition ==
    /\ [][/\ (FetchStep /\ cur'.err = NoErr /\ Len(emitted) >= 1) =>
                /\ etag' = etag \/ wpc' # "send"
                /\ emitted' = emitted
                /\ IF Good(cur') /\ cur'.tok # etag
                   THEN wpc' = "send"
                   ELSE IF cur'.hdr /\ cur'.tok \notin {"", etag}
                             /\ cur'.content = BadContent
                        THEN wpc' = "send"
                        ELSE wpc' = "select" /\ etag' = etag
          /\ (SendStep /\ cur.err = NoErr /\ Len(emitted) >= 1) =>
                IF Good(cur)
                THEN /\ cur.tok # etag
                     /\ emitted' = Append(emitted, Changed(cur))
                     /\ etag' = cur.tok
                     /\ wpc' = "select"
                ELSE /\ Len(emitted') = Len(emitted) + 1
                     /\ emitted'[Len(emitted')].Error # NoErr
                     /\ emitted'[Len(emitted')].Value = NilValue
                     /\ etag' = etag]_vars
    /\ [](AllGood /\ Len(log) >= 1 /\ wpc # "send" =>
            /\ Len(emitted) = 1 + Transitions(Tokens)
            /\ etag = log[Len(log)].tok
            /\ (Tokens = <<"A", "A", "B", "B", "C">> => Len(emitted) = 3))

\* the tokens A, A, B, B, C have been fetched, the two A with different bytes,
\* and all their snapshots sent
C5_Witness ==
    /\ Tokens = <<"A", "A", "B", "B", "C">>
    /\ AllGood
    /\ log[1].content # log[2].content
    /\ wpc = "select"
    /\ Len(emitted) = 3
    /\ etag = "C"

\* the first fetchAndNotify of the goroutine has returned
FirstFetchDone == Len(log) >= 1 /\ ~(Len(log) = 1 /\ wpc \in {"send", "sleep"})

\* fetches and ticks alternate, starting with a fetch
FetchBeforeTick ==
    /\ wpc \in {"idle", "start"} => Len(log) = 0 /\ ticksTaken = 0
    /\ wpc = "fetch" => ticksTaken = Len(log)
    /\ wpc \in {"send", "sleep", "select"} => Len(log) = ticksTaken + 1

AfterFailure(l) ==
    /\ \E i \in 1..(Len(l) - 1) : l[i].err # NoErr
    /\ \A i \in 1..(Len(l) - 1) : l[i].err = NoErr => l[i].tok # l[Len(l)].tok

\* what C7 says of the failing fetch itself: one Failed snapshot with the
\* error and no value, the token kept, and the goroutine back at the select
\* after the backoff
FailureHandled ==
    /\ (FetchStep /\ cur'.err # NoErr) =>
            wpc' = "send" /\ etag' = etag /\ emitted' = emitted
    /\ (SendStep /\ cur.err # NoErr) =>
            /\ emitted' = Append(emitted, Failed(cur.err))
            /\ wpc' = "sleep"
            /\ etag' = etag
    /\ (wpc = "sleep" /\ wpc' # "sleep") =>
            /\ wpc' = "select"
            /\ etag' = etag
            /\ emitted' = emitted
            /\ tickerOn'

C8_CancelStopsWorker ==
    /\ [](~respClosed)
    /\ [](wpc = "done" => ~tickerOn /\ bpc = "done")
    /\ [][/\ (bpc = "send_quit" /\ bpc' # "send_quit") =>
                wpc = "select" /\ wpc' = "done" /\ ~tickerOn'
          /\ wpc = "done" =>
                /\ wpc' = "done"
                /\ log' = log
                /\ emitted' = emitted
                /\ etag' = etag
                /\ tickPending' = tickPending]_vars

\* the goroutine has returned with a tick waiting and fetches left to make
C8_Witness ==
    /\ wpc = "done"
    /\ tickPending
    /\ Len(log) < FetchLimit(remote)
    /\ Len(emitted) >= 1

\* C9: after the host's cancellation the bridge forwards it and both
\* goroutines return; no state has the bridge blocked in quit <- true while
\* the polling goroutine is blocked in respChan <- resp.
C9_CancelNeverDeadlocks ==
    ~(bpc = "send_quit" /\ wpc = "send")

\* the RemoteResponse with the value and the error of a Response
Verbatim(r) == [type |-> "viper.RemoteResponse", Value |-> r.Value, Error |-> r.Error]

\* C10: the host has received, in order and once each, the verbatim copies of
\* the snapshots sent on respChan, but for the one the bridge is forwarding;
\* while no cancellation has been sent the bridge at its select has none left.
C10_BridgeForwardsVerbatim ==
    /\ [i \in 1..Len(emitted) |-> Verbatim(emitted[i])] =
            IF bpc = "forward" THEN Append(hostRecv, Verbatim(held)) ELSE hostRecv
    /\ bpc = "forward" <=> held # NoResp
    /\ (hostCancel = "no" /\ bpc = "select") =>
            Len(hostRecv) = Len(emitted)

\* the host has received a Changed snapshot, a Failed one and another Changed
\* one, and no cancellation was sent
C10_Witness ==
    /\ hostCancel = "no"
    /\ Len(hostRecv) = 3
    /\ hostRecv[1].Error = NoErr
    /\ hostRecv[2].Error # NoErr
    /\ hostRecv[3].Error = NoErr
    /\ hostRecv[3].Value # hostRecv[1].Value

(***************************************************************************)
(* Properties of the registry under concurrent callers                     *)
(***************************************************************************)
InRead(t) == pc[t] \in {"get_read", "isreg_read"}

\* C13: Register calls of concurrent callers never run inside the map's
\* critical section together, and whenever no Register is inside it, every id
\* with a successful Register holds the Manager its own call built (no two ids
\* share one), IsRegistered is true for exactly those ids and GetManager
\* returns exactly that Manager.
C13_ConcurrentRegisterKeepsRegistry ==
    /\ [](\A t \in Threads : InRegister(t) =>
            /\ mu.writer = t
            /\ \A u \in Threads \ {t} : ~InRegister(u))
    /\ [](mu.writer = NoThread =>
            \A id \in Keys :
                /\ ~Registered(id) => providers[id] = NoEntry
                /\ Registered(id) =>
                        /\ providers[id] # NoEntry
                        /\ providers[id].Manager = latest[id]
                        /\ \A o \in Keys \ {id} :
                                providers[o].Manager # providers[id].Manager)
    /\ [][\A t \in Threads :
            /\ (pc[t] = "isreg_read" /\ pc'[t] = "idle") =>
                    /\ ret'.by = t /\ ret'.op = "IsRegistered"
                    /\ ret'.exists <=> Registered(frame[t].id)
            /\ (pc[t] = "get_read" /\ pc'[t] = "idle") =>
                    /\ ret'.manager = LatestManager(frame[t].id)
                    /\ ret'.exists <=> Registered(frame[t].id)]_vars

\* both types have been registered, each with its own Manager; one caller is
\* inside IsRegistered of one of them, and IsRegistered of the key nobody
\* registered has just answered false
C13_Witness ==
    /\ \A id \in Types : latest[id] # NoManager /\ providers[id].Manager = latest[id]
    /\ \A id \in Types : \A o \in Types \ {id} : latest[o] # latest[id]
    /\ ret.op = "IsRegistered"
    /\ ret.id \notin Types
    /\ ~ret.exists
    /\ \E t \in Threads : pc[t] = "isreg_read" /\ frame[t].id \in Types

\* an entry whose Factory and Manager come from one Register call
Complete(entry) == entry # NoEntry /\ entry.Manager.factory = entry.Factory

\* C14: a reader is inside the critical section only while no writer is, and
\* a writer only while nobody else is; what a reader finds under an id that
\* has been registered is a complete entry, that of the last Register that
\* returned, and GetManager returns its Manager.
C14_ReplaceAtomicForReaders ==
    /\ [](\A t \in Threads :
            /\ InRead(t) => t \in mu.readers /\ mu.writer = NoThread
            /\ InRegister(t) => mu.writer = t /\ mu.readers = {}
            /\ InRead(t) =>
                    \A id \in Keys :
                        /\ ~Registered(id) <=> providers[id] = NoEntry
                        /\ Registered(id) =>
                                /\ Complete(providers[id])
                                /\ providers[id].Manager = latest[id])
    /\ [][\A t \in Threads :
            /\ (pc[t] = "get_read" /\ pc'[t] = "idle" /\ Registered(frame[t].id)) =>
                    /\ ret'.err = NoErr
                    /\ ret'.manager = latest[frame[t].id]
                    /\ ret'.manager.factory = providers[frame[t].id].Factory
            /\ (pc[t] = "isreg_read" /\ pc'[t] = "idle" /\ Registered(frame[t].id)) =>
                    ret'.exists]_vars

\* two readers are inside the critical section together, after the entry of an
\* id was replaced by one of another factory
C14_Witness ==
    /\ mu.readers = Threads
    /\ \A t \in Threads : InRead(t)
    /\ \E id \in Types :
            /\ providers[id].Manager.mid >= 2
            /\ \A o \in Keys \ {id} : providers[o] = NoEntry
            /\ \A t \in Threads : frame[t].id = id

(***************************************************************************)
(* Properties of cancellation and of the order of emissions                *)
(***************************************************************************)
\* C16: a party sending on the cancellation channel is never left blocked in
\* the send with no goroutine that will ever receive it; here, the host that
\* cancels a second time after the bridge has returned.
C16_CancellerNeverHung ==
    ~(hostCancel = "resending" /\ bpc = "done")

\* the responses that the fetches of l send, in order, starting with token e
RECURSIVE Replay(_, _)
Replay(l, e) ==
    IF l = <<>>
    THEN <<>>
    ELSE (IF fetchAndNotify(Head(l), e).send # NoResp
          THEN <<fetchAndNotify(Head(l), e).send>>
          ELSE <<>>) \o Replay(Tail(l), fetchAndNotify(Head(l), e).etag)

\* the fetches whose fetchAndNotify is past its send
Settled == IF wpc = "send" THEN SubSeq(log, 1, Len(log) - 1) ELSE log

\* C17: a fetch starts only when the loop is at its fetch, with no earlier
\* fetchAndNotify unfinished; a send emits the response of the last fetch and
\* no fetch happens with it; the emissions are those of the fetches in fetch
\* order, and the host has received a prefix of them, in that order.
C17_EmittedInFetchOrder ==
    /\ [](emitted = Replay(Settled, ""))
    /\ [](wpc = "send" => cur = log[Len(log)] /\ fetchAndNotify(cur, etag).send # NoResp)
    /\ [](/\ Len(hostRecv) <= Len(emitted)
          /\ \A i \in 1..Len(hostRecv) :
                hostRecv[i].Value = emitted[i].Value /\ hostRecv[i].Error = emitted[i].Error)
    /\ [][/\ FetchStep =>
                /\ wpc = "fetch"
                /\ emitted' = emitted
                /\ log' = Append(log, cur')
          /\ SendStep =>
                /\ log' = log
                /\ emitted' = Append(emitted, fetchAndNotify(log[Len(log)], etag).send)
          /\ Len(emitted') >= Len(emitted)
          /\ Len(emitted') > Len(emitted) => SendStep]_vars

\* three fetches went by, the second without an emission; the host has the
\* snapshot of the first and then that of the third
C17_Witness ==
    /\ Len(log) = 3
    /\ Len(emitted) = 2
    /\ Len(hostRecv) = 2
    /\ Good(log[1]) /\ Good(log[3])
    /\ hostRecv[1].Value = GetContent(log[1].content).value
    /\ hostRecv[2].Value = GetContent(log[3].content).value
    /\ ~Good(log[2])
    /\ hostRecv[1].Value # hostRecv[2].Value

(***************************************************************************)
(* Properties of the bridge's Manager resolution and of its one-shot calls *)
(***************************************************************************)
\* the steps in which a bridge call leaves a position
ResolveChecks == call.stage = "is_registered" /\ call'.stage # "is_registered"
ResolveReads == call.stage = "get_manager_read" /\ call'.stage # "get_manager_read"
LegacyStep == call'.legacyCalls = call.legacyCalls + 1
FailedReturn ==
    /\ call.op = "WatchChannel" /\ call.stage = "resolved" /\ call.err # NoErr
    /\ call' = NoCall

\* C11: WatchChannel with a failed resolution returns a closed stream holding
\* one response, the resolution error with no value, and a cancellation
\* channel; it calls no Manager.Watch and starts neither goroutine, and the
\* host receives that one response and then nothing but the end of the stream.
C11_FailedResolutionStream ==
    /\ [][FailedReturn =>
            /\ errCh' = [buf |-> <<RemoteResponse(NilValue, call.err)>>,
                         closed |-> TRUE, eof |-> FALSE]
            /\ bret'.stream = "errCh"
            /\ bret'.cancel \in {"inert", "quitwc"}
            /\ bret'.err = call.err
            /\ bret'.watchCalls = 0
            /\ wpc' = "idle" /\ bpc' = "idle"
            /\ hostRecv' = <<>>]_vars
    /\ [](errCh.closed =>
            /\ wpc = "idle" /\ bpc = "idle"
            /\ Len(hostRecv \o errCh.buf) = 1
            /\ (hostRecv \o errCh.buf)[1].Value = NilValue
            /\ (hostRecv \o errCh.buf)[1].Error \in {"open error", "backend error"}
            /\ errCh.eof => Len(hostRecv) = 1)
    /\ [](~errCh.closed => errCh = NoChan)

\* the host took the error of a keyring that does not open from the stream and
\* then found the stream at its end; no goroutine was started
C11_Witness ==
    /\ errCh.eof
    /\ hostRecv = <<RemoteResponse(NilValue, "open error")>>
    /\ wpc = "idle"
    /\ bpc = "idle"
    /\ call = NoCall

\* a completed call resolved its Manager in the registry
ViaRegistry(b) ==
    /\ b.saw
    /\ b.legacyCalls = 0
    /\ b.resErr = NoErr
    /\ ~IsLegacy(b.cm)
    /\ b.cm.mid >= 1

\* a completed call went to the legacy backends
ViaLegacy(b) ==
    /\ ~b.saw
    /\ b.legacyCalls = 1
    /\ b.resErr = NoErr =>
            /\ IsLegacy(b.cm)
            /\ b.cm.kind = LegacyKind(b.rp.provider)
            /\ b.cm.endpoints = Split(b.rp.endpoint)
            /\ b.cm.secure <=> b.rp.secretKeyring # ""
    /\ b.resErr # NoErr => b.cm = NoManager

\* C12: a bridge call first asks the registry for the descriptor's provider
\* id; when the id is there it takes the Manager the registry holds for it and
\* constructs no legacy backend; it constructs one, from the descriptor's
\* endpoint and keyring, only after its check found the id absent.
C12_ResolutionOrder ==
    /\ [][/\ ResolveChecks =>
                /\ call'.saw <=> providers[call.rp.provider] # NoEntry
                /\ call'.stage = IF call'.saw THEN "get_manager" ELSE "legacy"
                /\ call'.legacyCalls = 0
          /\ ResolveReads =>
                /\ call.saw
                /\ call'.cm = providers[call.rp.provider].Manager
                /\ call'.legacyCalls = 0
          /\ LegacyStep =>
                /\ ~call.saw
                /\ call.stage = "legacy"
                /\ call.legacyCalls = 0]_vars
    /\ [](bret.op # "none" =>
            /\ bret.op \in BridgeOps
            /\ ViaRegistry(bret) \/ ViaLegacy(bret))
    /\ [](call.stage = "resolved" =>
            ViaRegistry(Returned(call)) \/ ViaLegacy(Returned(call)))

\* Get resolved the Manager that replaced the first one registered for the id,
\* and no legacy backend was constructed
C12_Witness ==
    /\ bret.op = "Get"
    /\ ViaRegistry(bret)
    /\ bret.cm = latest[bret.rp.provider]
    /\ bret.cm.mid >= 2

\* C15: for every id, the registry holds an entry exactly when some Register
\* of it has succeeded; IsRegistered answers that, and GetManager returns the
\* Manager exactly then and a not-registered error otherwise; no step removes
\* an entry, so the id a bridge call saw registered stays registered and the
\* GetManager of that call succeeds.
C15_RegisteredIffRegisterSucceeded ==
    /\ [](mu.writer = NoThread =>
            \A id \in Keys : providers[id] # NoEntry <=> Registered(id))
    /\ [](call.saw => providers[call.rp.provider] # NoEntry)
    /\ [][/\ \A id \in Keys : providers[id] # NoEntry => providers'[id] # NoEntry
          /\ \A t \in Threads :
                /\ (pc[t] = "isreg_read" /\ pc'[t] = "idle") =>
                        (ret'.exists <=> Registered(frame[t].id))
                /\ (pc[t] = "get_read" /\ pc'[t] = "idle") =>
                        IF Registered(frame[t].id)
                        THEN ret'.err = NoErr /\ ret'.manager = latest[frame[t].id]
                        ELSE ret'.err = "not registered" /\ ret'.manager = NoManager
          /\ ResolveReads =>
                /\ call'.err = NoErr
                /\ call'.cm = latest[call.rp.provider]
                /\ call'.cm # NoManager]_vars

\* the GetManager of a bridge call has succeeded, and a Register of the same id
\* is failing at its factory
C15_Witness ==
    /\ call.stage = "resolved"
    /\ call.saw
    /\ call.err = NoErr
    /\ call.cm = latest[call.rp.provider]
    /\ ret.by = Host
    /\ ret.err = NoErr
    /\ pc[Registrar] = "reg_factory"
    /\ frame[Registrar].id = call.rp.provider

\* a step in which Get or Watch returns
OneShotReturn ==
    /\ call.op \in {"Get", "Watch"}
    /\ call.stage = "resolved"
    /\ call' = NoCall

\* what a one-shot call returns when Manager.Get handed back m
Unwrapped(m) ==
    IF m.err # NoErr
    THEN [reader |-> NilReader, err |-> m.err]
    ELSE [reader |-> [type |-> "bytes.Reader",
                      data |-> IF m.bytes = NilValue THEN "" ELSE m.bytes],
          err |-> NoErr]

\* C19: Get and Watch return the resolution error as it is, without a call of
\* Manager.Get, when resolution fails; otherwise they call Manager.Get once,
\* with the descriptor's path, and return its error as it is or a reader of
\* its bytes. The result is the same function of what resolution and
\* Manager.Get gave for both. Neither starts a goroutine, opens a stream or
\* changes the registry.
C19_OneShotGetAndWatch ==
    /\ [](bret.op \in {"Get", "Watch"} =>
            /\ bret.watchCalls = 0
            /\ bret.stream = "none"
            /\ bret.resErr # NoErr =>
                    /\ bret.getCalls = 0
                    /\ bret.err = bret.resErr
                    /\ bret.reader = NilReader
            /\ bret.resErr = NoErr =>
                    /\ bret.getCalls = 1
                    /\ bret.key = bret.rp.path
                    /\ bret.err = Unwrapped(bret.got).err
                    /\ bret.reader = Unwrapped(bret.got).reader)
    /\ [][OneShotReturn =>
            /\ bret'.op = call.op
            /\ bret'.rp = call.rp
            /\ bret'.cm = call.cm
            /\ bret'.resErr = call.err
            /\ providers' = providers
            /\ latest' = latest
            /\ wpc' = wpc /\ bpc' = bpc
            /\ errCh' = errCh
            /\ hostRecv' = hostRecv]_vars

\* Watch returned the error of the Manager registered for the id as it is, and
\* nothing was started
C19_Witness ==
    /\ bret.op = "Watch"
    /\ bret.saw
    /\ bret.got.err = "decode error"
    /\ bret.err = "decode error"
    /\ bret.reader = NilReader
    /\ wpc = "idle"
    /\ bpc = "idle"

\* what one fetch of r at the configured path gives, whatever the key
OneFetch(r) ==
    IF r.err # NoErr THEN [bytes |-> NilValue, err |-> r.err, fetches |-> 1]
    ELSE IF r.content = NilContent THEN [bytes |-> NilValue, err |-> NoErr, fetches |-> 1]
    ELSE IF r.content = "c1" THEN [bytes |-> "b1", err |-> NoErr, fetches |-> 1]
    ELSE IF r.content = "c2" THEN [bytes |-> "b2", err |-> NoErr, fetches |-> 1]
    ELSE [bytes |-> NilValue, err |-> "decode error", fetches |-> 1]

\* C20: the Get of a registered Manager makes one GetContents call and hands
\* back what that call gave at the configured path: its error, or nothing when
\* there is no content, or the decode error, or the decoded bytes; the key it
\* was given plays no part, and a failure is returned after the one attempt.
C20_ManagerGetIgnoresKey ==
    [](/\ bret.getCalls = 1
       /\ ~IsLegacy(bret.cm)
       => /\ bret.fetched \in GetInputs
          /\ bret.got = OneFetch(bret.fetched)
          /\ bret.got.fetches = 1
          /\ bret.fetched.err # NoErr => bret.got.err = bret.fetched.err)

\* Get with a key that is not the configured path returned the bytes found at
\* the configured path
C20_Witness ==
    /\ bret.op = "Get"
    /\ bret.getCalls = 1
    /\ ~IsLegacy(bret.cm)
    /\ bret.key = "other"
    /\ bret.key # OptTokenOk.Path
    /\ bret.fetched.content = "c2"
    /\ bret.got = [bytes |-> "b2", err |-> NoErr, fetches |-> 1]

(***************************************************************************)
(* Properties of several Watch calls on one Manager                        *)
(***************************************************************************)
\* the token a goroutine holds after the fetches of l, starting with token e
RECURSIVE EtagAfter(_, _)
EtagAfter(l, e) ==
    IF l = <<>> THEN e ELSE EtagAfter(Tail(l), fetchAndNotify(Head(l), e).etag)

\* the fetches of a worker whose fetchAndNotify has returned, and those past
\* their send
Finished(k) ==
    IF k.pc \in {"send", "sleep"} THEN SubSeq(k.log, 1, Len(k.log) - 1) ELSE k.log
Sent(k) == IF k.pc = "send" THEN SubSeq(k.log, 1, Len(k.log) - 1) ELSE k.log

Started == {w \in Watchers : workers[w].pc # "idle"}

\* C18: there are as many workers as Watch calls, each with a respChan of its
\* own; what a worker has emitted and the token it holds are those its own
\* fetches give, starting from the empty token, whatever the other workers
\* fetched; a step of one worker leaves the others as they are.
C18_WorkersAreIndependent ==
    /\ [](/\ Cardinality(Started) = watchCalls
          /\ \A w \in Started : workers[w].respChan \in 1..watchCalls
          /\ \A w \in Started : \A v \in Started \ {w} :
                workers[w].respChan # workers[v].respChan)
    /\ [](\A w \in Watchers :
            /\ workers[w].emitted = Replay(Sent(workers[w]), "")
            /\ workers[w].etag = EtagAfter(Finished(workers[w]), ""))
    /\ [][\A w \in Watchers :
            workers'[w] # workers[w] =>
                \A v \in Watchers \ {w} : workers'[v] = workers[v]]_vars

\* both workers fetched the same content with the same token and each emitted
\* it as its first snapshot; one then went on to another token
C18_Witness ==
    /\ watchCalls = 2
    /\ Len(workers["w1"].log) = 2
    /\ Len(workers["w2"].log) = 1
    /\ workers["w1"].log[1] = workers["w2"].log[1]
    /\ Good(workers["w1"].log[1])
    /\ Len(workers["w1"].emitted) = 2
    /\ Len(workers["w2"].emitted) = 1
    /\ workers["w1"].emitted[1] = workers["w2"].emitted[1]
    /\ workers["w1"].etag = "B"
    /\ workers["w2"].etag = "A"
    /\ workers["w2"].pc = "select"

(***************************************************************************)
(* Properties of the form of the snapshots and of fetches that emit no     *)
(* value                                                                   *)
(***************************************************************************)
\* a value with no error, or an error with no value
ValueForm(x) == x.Value # NilValue /\ x.Error = NoErr
ErrorForm(x) == x.Value = NilValue /\ x.Error # NoErr
UnionForm(x) == (ValueForm(x) \/ ErrorForm(x)) /\ ~(ValueForm(x) /\ ErrorForm(x))

\* C21: every response sent on respChan, the one the bridge holds and every
\* one the host received carries a value and no error, or an error and no
\* value.
C21_SnapshotIsUnion ==
    /\ \A i \in 1..Len(emitted) : UnionForm(emitted[i])
    /\ \A i \in 1..Len(hostRecv) : UnionForm(hostRecv[i])
    /\ held # NoResp => UnionForm(held)
    /\ wpc = "send" => UnionForm(fetchAndNotify(cur, etag).send)

\* the host has received a failed fetch, a decode error and a value
C21_Witness ==
    /\ Len(hostRecv) = 3
    /\ hostRecv[1].Error = "fetch error" /\ hostRecv[1].Value = NilValue
    /\ hostRecv[2].Error = "decode error" /\ hostRecv[2].Value = NilValue
    /\ hostRecv[3].Error = NoErr /\ hostRecv[3].Value = "b1"

\* a successful fetch with a token that is not the stored one and content that
\* does not decode; one with such a token and no content; one with no token
Undecodable(r, e) ==
    r.err = NoErr /\ r.hdr /\ r.tok # "" /\ r.tok # e /\ r.content = BadContent
Contentless(r, e) ==
    r.err = NoErr /\ r.hdr /\ r.tok # "" /\ r.tok # e /\ r.content = NilContent
Tokenless(r) == r.err = NoErr /\ (~r.hdr \/ r.tok = "")

\* C26: a fetch with a new token and undecodable content goes to one send, of
\* the decode error alone, and the stored token stays; a fetch with a new
\* token and no content, or with no token, sends nothing and the token stays;
\* so a later fetch with that token and decodable content is sent as a change
\* and only then is the token stored.
C26_NoValueKeepsToken ==
    [][/\ (FetchStep /\ Undecodable(cur', etag)) =>
                /\ wpc' = "send"
                /\ etag' = etag
                /\ emitted' = emitted
       /\ (SendStep /\ Undecodable(cur, etag)) =>
                /\ emitted' = Append(emitted, Response(NilValue, "decode error"))
                /\ etag' = etag
                /\ wpc' = "select"
       /\ (FetchStep /\ (Contentless(cur', etag) \/ Tokenless(cur'))) =>
                /\ wpc' = "select"
                /\ etag' = etag
                /\ emitted' = emitted
       /\ (FetchStep /\ Good(cur') /\ cur'.tok # etag) => wpc' = "send"
       /\ (SendStep /\ Good(cur) /\ cur.tok # etag) =>
                /\ emitted' = Append(emitted, Response(GetContent(cur.content).value, NoErr))
                /\ etag' = cur.tok]_vars

\* token A came with undecodable content, then with no content, then with
\* content that decodes: a decode error and then the value were sent, and A is
\* stored
C26_Witness ==
    /\ Len(log) = 3
    /\ log[1].tok = "A" /\ log[1].content = BadContent
    /\ log[2].tok = "A" /\ log[2].content = NilContent
    /\ log[3].tok = "A" /\ log[3].content = "c1"
    /\ emitted = <<Response(NilValue, "decode error"), Response("b1", NoErr)>>
    /\ etag = "A"

(***************************************************************************)
(* Properties of Option.Validate and of the polling interval               *)
(***************************************************************************)
\* the identifiers are set and so is at least one credential
Complete5(o) ==
    /\ o.Owner # "" /\ o.Repository # "" /\ o.Path # ""
    /\ o.Token # "" \/ o.PemFilePath # ""

\* C22: Validate returns nil exactly for the Options whose Owner, Repository
\* and Path are set and whose Token or PemFilePath is set, an error for all
\* others, and the call leaves the Option and everything else as it was.
C22_ValidateAcceptsComplete ==
    /\ [](vret.called => (vret.err = NoErr <=> Complete5(option)))
    /\ [][(~vret.called /\ vret'.called) =>
            /\ vret'.err = NoErr <=> Complete5(option)
            /\ option' = option
            /\ cmgr' = cmgr /\ ticker' = ticker
            /\ providers' = providers
            /\ supported' = supported /\ remoteConfig' = remoteConfig]_vars

\* Validate has accepted an Option whose only credential is the key file
C22_Witness ==
    /\ vret.called
    /\ vret.err = NoErr
    /\ option.Token = ""
    /\ option.PemFilePath # ""
    /\ option.PollingInterval = 0

\* the interval a Manager constructed with d polls at
Effective(d) == IF d = 0 THEN 60 ELSE d

\* C23: the constructor turns a PollingInterval of zero into 60 seconds and
\* leaves any other as it is; a Watch on the Manager ticks at that interval,
\* which is positive whenever the configured one was not negative.
C23_DefaultPollingInterval ==
    /\ [](cmgr.built => option.PollingInterval = Effective(cmgr.configured))
    /\ [](ticker.state # "none" =>
            /\ ticker.interval = Effective(cmgr.configured)
            /\ cmgr.configured >= 0 => ticker.interval > 0 /\ ticker.state = "running"
            /\ cmgr.configured = 0 => ticker.interval = 60
            /\ cmgr.configured > 0 => ticker.interval = cmgr.configured)
    /\ [][(~cmgr.built /\ cmgr'.built) =>
            /\ cmgr'.configured = option.PollingInterval
            /\ option' = [option EXCEPT !.PollingInterval = Effective(@)]]_vars

\* a Manager constructed from an Option with no interval set is watched with a
\* ticker of 60 seconds
C23_Witness ==
    /\ cmgr.built
    /\ cmgr.configured = 0
    /\ ticker.state = "running"
    /\ ticker.interval = 60

(***************************************************************************)
(* Properties of the package-level RegisterProvider                        *)
(***************************************************************************)
\* the positions at which RegisterProvider is about to write one of the host's
\* globals
HostWrites == {"append_write", "set_hook"}

\* C24: no two callers are at the same time about to write the host's list of
\* supported providers or its hook, which they do after the registry lock was
\* released.
C24_HostGlobalsWrittenExclusively ==
    \A t \in Threads : \A u \in Threads \ {t} :
        ~(top[t].pc \in HostWrites /\ top[u].pc \in HostWrites)

\* the number of times str occurs in slice
Count(slice, str) == Cardinality({i \in 1..Len(slice) : slice[i] = str})

Quiet == \A t \in Threads : top[t].pc = "idle"

\* C27: between RegisterProvider calls the list holds the names it started
\* with, in front, and then each registered name once; the hook is set once a
\* call has succeeded, and it is written only when nil, with the bridge; a
\* RegisterProvider call that returns an error has changed neither the
\* registry nor the list nor the hook.
C27_ListAndHookAfterRegister ==
    /\ [](Quiet =>
            /\ SubSeq(supported, 1, Len(DefaultSupported)) = DefaultSupported
            /\ \A id \in Types :
                    Count(supported, id) = IF Registered(id) THEN 1 ELSE 0
            /\ Len(supported) =
                    Len(DefaultSupported) + Cardinality({id \in Types : Registered(id)})
            /\ (\E id \in Types : Registered(id)) => remoteConfig # "nil")
    /\ [][/\ remoteConfig' # remoteConfig =>
                remoteConfig = "nil" /\ remoteConfig' = "bridge"
          /\ \A t \in Threads :
                /\ top[t].pc = "register" =>
                        supported' = supported /\ remoteConfig' = remoteConfig
                /\ (top[t].pc = "register" /\ top'[t].pc = "idle") =>
                        /\ ret'.err # NoErr
                        /\ pc[t] \in {"reg_validate", "reg_factory"}
                        /\ providers' = providers
                        /\ latest' = latest
                /\ (top[t].pc = "register" /\ top'[t].pc = "contains") =>
                        ret'.err = NoErr /\ Registered(top[t].name)']_vars

\* github, s3 and github again were registered: the list has each once, after
\* the names it started with, and the hook is the bridge
C27_Witness ==
    /\ Quiet
    /\ supported = DefaultSupported \o <<"github", "s3">>
    /\ latest["github"].mid = 3
    /\ latest["s3"].mid = 2
    /\ remoteConfig = "bridge"

(***************************************************************************)
(* Properties of registrations while a watch is running                    *)
(***************************************************************************)
\* the watch started from a Manager that is no longer the registered one
Replaced ==
    /\ bret.op = "WatchChannel"
    /\ bret.cm # NoManager
    /\ LatestManager(bret.rp.provider) # bret.cm

\* C25: a step of Register, IsRegistered or GetManager leaves the polling
\* worker, the bridge worker, their streams, the stored token and the
\* cancellation channel as they are, and the cancellation channel changes in
\* no step of the registry; the worker and the bridge end only after the
\* cancellation channel of the watch was signaled, and the ticker of a running
\* worker is on; whatever was registered
\* meanwhile, what the worker emitted and the token it holds are those its own
\* fetches give from the empty token, and the host received a prefix of it.
C25_ReRegistrationLeavesWatchAlone ==
    /\ [][regVars' # regVars => pollVars' = pollVars /\ bridgeVars' = bridgeVars]_vars
    /\ [][hostCancel' # hostCancel => regVars' = regVars]_vars
    /\ [](wpc = "done" \/ bpc \in {"send_quit", "done"} => hostCancel # "no")
    /\ [](wpc \notin {"idle", "start", "done"} => tickerOn)
    /\ [](/\ emitted = Replay(Settled, "")
          /\ etag = EtagAfter(Settled, "")
          /\ Len(hostRecv) <= Len(emitted)
          /\ \A i \in 1..Len(hostRecv) : hostRecv[i] = Convert(emitted[i]))

\* the provider was registered again after the watch started from its first
\* Manager; the worker, not cancelled, fetched twice with the token of its
\* first fetch and is sending what the second fetch found
C25_Witness ==
    /\ Replaced
    /\ bret.cm.mid = 1
    /\ LatestManager("github").mid = 3
    /\ hostCancel = "no"
    /\ Len(log) = 2
    /\ log[1].tok = "A" /\ log[2].tok = "B"
    /\ etag = "A"
    /\ wpc = "send"
    /\ Len(emitted) = 1
    /\ Len(hostRecv) = 1

====
